---- MODULE Spec2Model ----
(***************************************************************************)
(* NavidromeClient.sync_library (telegram-bot/src/navidrome_client.py):    *)
(* the scan-status gate, the cache load, the listing, the diff with the    *)
(* 7-day expiry, the concurrent enrichment with its fallback, and the      *)
(* reconstruction and save of albums_cache.json.                           *)
(*                                                                         *)
(* Time is counted in whole days.  An album dictionary keeps the keys the  *)
(* synchronisation reads: id, total_size_bytes (may be absent), and        *)
(* _fetched_at (absent, unparsable, or an ISO timestamp).                  *)
(*                                                                         *)
(* Further specifications share the module: SpecApp, the two threads       *)
(* main.py starts and their calls of sync_library; SpecQuery, the filter   *)
(* and sort of NavidromeClient.get_new_albums; SpecAnniversary,            *)
(* get_anniversary_albums; SpecHistory, get_top_albums_from_history;       *)
(* SpecStats, get_server_stats; SpecDetails, _fetch_album_details;         *)
(* SpecFormat, TelegramBot.format_album_list with _extract_best_date;      *)
(* SpecNormalize, converter/docker/normalizer/normalize_dirs.py;           *)
(* SpecPool, the ThreadPoolExecutor of the enrichment; SpecListing, the    *)
(* paging loop over getAlbumList2 (with weak fairness); SpecHttp, one      *)
(* remote call through the retrying session or through requests.get;       *)
(* SpecSplit, TelegramBot._split_message; and SpecBot, the handlers of     *)
(* telegram_bot.py with their authorization wrapper.                       *)
(***************************************************************************)
EXTENDS Integers, Sequences, FiniteSets, TLC

\* ---------------------------------------------------------------- bounds
MaxId == 2
MaxTime == 7
MaxScans == 1
MaxCalls == 2
MaxAlbums == 2
MaxEvents == 2
MaxSongs == 3
MaxTracks == 2
MaxFetch == 11
MaxPages == 3
MaxPageLen == 2
MaxRequests == 5
MaxTextLen == 6
MaxLength == 3
MaxChat == 2

\* ---------------------------------------------------- program constants
expiry_days == 7
MigrationSample == 20
IsoDateLength == 10
SecondsBelow == 100000000
HistoryNow == 1700604
max_workers == 10
size == 500
total == 3

VARIABLES
    now,                  \* the wall clock, in days
    remoteIds,            \* album ids the server lists
    remoteFp,             \* the server's scanStatus {count, lastScan}
    cacheFile,            \* /app/data/albums_cache.json
    metaFile,             \* /app/data/scan_status.json
    pc,                   \* position of the sync_library call
    force,                \* its argument
    status,               \* what check_scan_status gave the call ("unused": none made)
    cached_albums,        \* dict id -> album, in insertion order
    current_api_albums,   \* the listing
    expired_ids,
    pending,              \* futures submitted and not yet completed
    new_enriched_albums,
    outcomes,             \* history: how each future of this pass ended
    calls,                \* history: number of calls begun
    result,               \* history: the last call and how it ended
    run_on_startup,       \* main.py: the RUN_ON_STARTUP environment variable
    scheduler_thread,     \* main.py: where the "Scheduler" thread is
    bot_thread,           \* main.py: where the "BotPolling" thread is
    clock,                \* get_new_albums: the instant of the call, in hours UTC
    utc_offset,           \* get_new_albums: the offset of the process's local time
    hours,                \* get_new_albums: its argument
    all_albums,           \* get_new_albums: what sync_library returned to it
    new_albums,           \* get_new_albums: its list
    returned,             \* get_new_albums: "no", "yes", or "raised"
    day,                  \* get_anniversary_albums: its argument
    month,                \* get_anniversary_albums: its argument
    anniversary_albums,   \* get_anniversary_albums: what sync_library returned to it
    matches,              \* get_anniversary_albums: its list
    anniversary_returned, \* get_anniversary_albums: "no", "yes", or "raised"
    response,             \* get_top_albums_from_history: what getHistory gives
    fallback,             \* get_top_albums_from_history: what getAlbumList2 gives
    days,                 \* get_top_albums_from_history: its argument
    limit,                \* get_top_albums_from_history: its argument
    top_albums,           \* get_top_albums_from_history: its list
    history_returned,     \* get_top_albums_from_history: "no", "yes", or "raised"
    stats_sync,           \* get_server_stats: sync_library returns ("ok") or raises
    stats_albums,         \* get_server_stats: what sync_library returns to it
    stats,                \* get_server_stats: its dictionary
    stats_returned,       \* get_server_stats: "no", "stats", "none", or "raised"
    album_response,       \* _fetch_album_details: what getAlbum gives
    details,              \* _fetch_album_details: the album it returns
    details_returned,     \* _fetch_album_details: "no", "album", "none", or "raised"
    format_albums,        \* format_album_list: its argument
    message,              \* format_album_list: the date lines of its message
    format_returned,      \* format_album_list: "no", "message", or "none"
    argv_dry_run,         \* normalize_dirs: --dry-run is on the command line
    dry_run,              \* normalize_dirs: the dry_run that normalize() receives
    SKIP_EXISTING,        \* normalize_dirs: the environment variable is 'yes'
    fs_dirs,              \* normalize_dirs: the directories under the source root
    fs_files,             \* normalize_dirs: the audio files under the source root
    normalize_pc,         \* normalize_dirs: "none", "main", "albums", "files", "done"
    album_dirs,           \* normalize_dirs: album directories still to process
    renamed_album_dir,    \* normalize_dirs: process_album's directory
    disc_map,             \* normalize_dirs: process_album's files still to place
    multi_disc,           \* normalize_dirs: process_album found more than one disc
    pool_ids,             \* enrichment: ids_to_fetch of the pass
    future_to_id,         \* enrichment: the ids submitted to the executor
    submits,              \* enrichment, history: how often each id was submitted
    work_queue,           \* enrichment: the executor's queue of work items
    threads,              \* enrichment: the number of worker threads of the executor
    in_flight,            \* enrichment: the fetches a worker is running
    done_futures,         \* enrichment: the futures that returned or raised
    count,                \* enrichment: the futures the as_completed loop handled
    pool_pc,              \* enrichment: "none", "submit", "as_completed", "reconcile"
    remote_pages,         \* listing: what the server answers, request by request
    remote_tail,          \* listing: its answers after those, "empty" or "repeat"
    music_folder_id,      \* listing: self._music_folder_id is set
    list_offset,          \* listing: the offset of the next request
    api_albums,           \* listing: current_api_albums as the loop builds it
    requests_made,        \* listing, history: the offsets requested
    listing_pc,           \* listing: "none", "loop", "done", or "raised"
    http_call,            \* remote call: the method of the client that makes it
    http_answers,         \* remote call: the server's answer to each attempt
    attempts,             \* remote call: the requests sent so far
    http_outcome,         \* remote call: "no", "response", "none", or "raised"
    text,                 \* _split_message: its argument, character by character
    max_length,           \* _split_message: its argument
    chunks,               \* _split_message: the list it returns
    split_returned,       \* _split_message: it has returned
    authorized_chat_ids,  \* bot: the chat ids of the telegram_chat_id secret
    keyboards,            \* bot: the chats that hold a genre keyboard of the bot
    last_update           \* bot, history: the last update and what its handler did

\* The threads of the application around the library.
app == <<run_on_startup, scheduler_thread, bot_thread>>

\* A call of get_new_albums.
query == <<clock, utc_offset, hours, all_albums, new_albums, returned>>

\* A call of get_anniversary_albums.
anniversary == <<day, month, anniversary_albums, matches, anniversary_returned>>

\* A call of get_top_albums_from_history.
history == <<response, fallback, days, limit, top_albums, history_returned>>

\* A call of get_server_stats.
server_stats == <<stats_sync, stats_albums, stats, stats_returned>>

\* A call of _fetch_album_details.
album_details == <<album_response, details, details_returned>>

\* A call of format_album_list.
formatting == <<format_albums, message, format_returned>>

\* A run of normalize_dirs.py.
normalizer == <<argv_dry_run, dry_run, SKIP_EXISTING, fs_dirs, fs_files, normalize_pc,
                album_dirs, renamed_album_dir, disc_map, multi_disc>>

\* The enrichment of one pass of sync_library, with its executor.
pool == <<pool_ids, future_to_id, submits, work_queue, threads, in_flight,
          done_futures, count, pool_pc>>

\* The listing loop of one pass of sync_library.
listing_loop == <<remote_pages, remote_tail, music_folder_id, list_offset, api_albums,
                  requests_made, listing_pc>>

\* One remote call of the client.
http == <<http_call, http_answers, attempts, http_outcome>>

\* A call of _split_message.
splitting == <<text, max_length, chunks, split_returned>>

\* The handlers of the Telegram bot.
bot == <<authorized_chat_ids, keyboards, last_update>>

\* The steps looked at one by one.
extra == <<pool, listing_loop, http, splitting, bot>>

\* The calls of the further specifications.
more == <<anniversary, history, server_stats, album_details, formatting, normalizer>>

vars == <<now, remoteIds, remoteFp, cacheFile, metaFile, pc, force, status,
          cached_albums, current_api_albums, expired_ids, pending,
          new_enriched_albums, outcomes, calls, result, app, query, more, extra>>

Ids == 1..MaxId

Min(a, b) == IF a < b THEN a ELSE b

IdsOf(albums) == {albums[i].id : i \in DOMAIN albums}

RECURSIVE SortedSeq(_)
SortedSeq(S) ==
    IF S = {} THEN <<>>
    ELSE LET m == CHOOSE x \in S : \A y \in S : x <= y
         IN  <<m>> \o SortedSeq(S \ {m})

\* ------------------------------------------------------------- the server

\* The song list getAlbum returns for an album: each song with or without 'size'.
RemoteSongs(aid) ==
    IF aid = 1 THEN <<[has_size |-> TRUE, size |-> 3], [has_size |-> FALSE, size |-> 0]>>
    ELSE IF aid = 2 THEN <<>>
    ELSE <<[has_size |-> TRUE, size |-> 2], [has_size |-> TRUE, size |-> 2]>>

\* An entry of getAlbumList: no total_size_bytes, no _fetched_at.
ListingEntry(aid) ==
    [id |-> aid, detailed |-> FALSE, has_size |-> FALSE, total_size_bytes |-> 0,
     fetched_at_str |-> "missing", fetched_at |-> 0]

RECURSIVE SumSizes(_)
SumSizes(songs) ==
    IF songs = <<>> THEN 0
    ELSE (IF Head(songs).has_size THEN Head(songs).size ELSE 0) + SumSizes(Tail(songs))

\* _fetch_album_details: outcome "ok" gives the album with total_size_bytes,
\* "none" gives None, "raise" propagates the exception of _request.
FetchAlbumDetails(aid, outcome) ==
    IF outcome = "ok"
    THEN [status |-> "ok",
          album |-> [id |-> aid, detailed |-> TRUE, has_size |-> TRUE,
                     total_size_bytes |-> SumSizes(RemoteSongs(aid)),
                     fetched_at_str |-> "missing", fetched_at |-> 0]]
    ELSE [status |-> outcome, album |-> ListingEntry(aid)]

\* ---------------------------------------------------------------- files

AbsentFile == [state |-> "absent", data |-> <<>>]
CorruptFile == [state |-> "corrupt", data |-> <<>>]
JsonFile(albums) == [state |-> "json", data |-> albums]

AbsentMeta == [state |-> "absent", count |-> 0, lastScan |-> 0]
CorruptMeta == [state |-> "corrupt", count |-> 0, lastScan |-> 0]
JsonMeta(fp) == [state |-> "json", count |-> fp.count, lastScan |-> fp.lastScan]

\* open(path, 'w') followed by json.dump: "ok" replaces the content; "denied"
\* fails in open and leaves the file; "partial" fails after the truncation.
WriteOutcomes == {"ok", "denied", "partial"}

WriteCache(old, albums, wo) ==
    IF wo = "ok" THEN JsonFile(albums)
    ELSE IF wo = "denied" THEN old
    ELSE CorruptFile

WriteMeta(old, fp, wo) ==
    IF wo = "ok" THEN JsonMeta(fp)
    ELSE IF wo = "denied" THEN old
    ELSE CorruptMeta

\* A cache written by an earlier version of the client: no total_size_bytes on
\* the first album, no usable _fetched_at on the second.
LegacyCache ==
    JsonFile(<<[id |-> 1, detailed |-> TRUE, has_size |-> FALSE, total_size_bytes |-> 0,
                fetched_at_str |-> "iso", fetched_at |-> 0],
               [id |-> 2, detailed |-> TRUE, has_size |-> TRUE, total_size_bytes |-> 0,
                fetched_at_str |-> "bad", fetched_at |-> 0]>>)

\* A cache of MigrationSample + 1 albums whose last album is a fallback record.
LongCache ==
    JsonFile([i \in 1..(MigrationSample + 1) |->
                [id |-> i, detailed |-> (i <= MigrationSample),
                 has_size |-> (i <= MigrationSample), total_size_bytes |-> 0,
                 fetched_at_str |-> "iso", fetched_at |-> 0]])

\* ------------------------------------------------- sync_library: the gate

\* Mutant: the migration check looks at every album of the cache.
NeedsMigrationWholeCache(cached_data) ==
    \E i \in 1..Len(cached_data) : ~cached_data[i].has_size

\* The migration check: one of the first albums of the cache lacks total_size_bytes.
NeedsMigration(cached_data) ==
    \E i \in 1..Min(Len(cached_data), MigrationSample) : ~cached_data[i].has_size

\* Mutant: the gate does not test that the cache file exists and returns the
\* empty content of a missing file.
ScanGateNoExistsCheck(st, fp, meta, cache) ==
    IF st = "raise" THEN "exception"
    ELSE IF st # "ok" THEN "proceed"
    ELSE IF meta.state = "absent" THEN "save"
    ELSE IF meta.state = "corrupt" THEN "exception"
    ELSE IF meta.count = fp.count /\ meta.lastScan = fp.lastScan
         THEN IF cache.state = "corrupt" THEN "exception"
              ELSE IF NeedsMigration(cache.data) THEN "save"
              ELSE "skip"
    ELSE "save"

\* The body of the try block. st is what check_scan_status gave: "ok" (a status
\* that is not scanning), "scanning", "none" (no scanStatus) or "raise". The
\* outcome is "skip" (return the cache), "save" (write scan_status.json and go
\* on), "proceed" (go on without writing) or "exception".
ScanGate(st, fp, meta, cache) ==
    IF st = "raise" THEN "exception"
    ELSE IF st # "ok" THEN "proceed"
    ELSE IF meta.state = "absent" THEN "save"
    ELSE IF meta.state = "corrupt" THEN "exception"
    ELSE IF meta.count = fp.count /\ meta.lastScan = fp.lastScan
         THEN IF cache.state = "absent" THEN "save"
              ELSE IF cache.state = "corrupt" THEN "exception"
              ELSE IF NeedsMigration(cache.data) THEN "save"
              ELSE "skip"
    ELSE "save"

\* Mutant: the exception of the gate is not caught.
GateExceptReraise(outcome) == outcome

\* except Exception: log a warning and proceed with the sync.
GateExcept(outcome) == IF outcome = "exception" THEN "proceed" ELSE outcome

\* Mutant: a forced call writes scan_status.json as well.
GateOutcomeForceSaves(f, st, fp, meta, cache) ==
    IF f THEN "save" ELSE GateExcept(ScanGate(st, fp, meta, cache))

\* if not force: try ... except
GateOutcome(f, st, fp, meta, cache) ==
    IF f THEN "proceed" ELSE GateExcept(ScanGate(st, fp, meta, cache))

\* ------------------------------------------- sync_library: the cache load

DictSet(d, alb) ==
    IF \E i \in DOMAIN d : d[i].id = alb.id
    THEN [i \in DOMAIN d |-> IF d[i].id = alb.id THEN alb ELSE d[i]]
    ELSE Append(d, alb)

RECURSIVE DictFromList(_, _)
DictFromList(d, data) ==
    IF data = <<>> THEN d
    ELSE DictFromList(IF Head(data).id > 0 THEN DictSet(d, Head(data)) ELSE d, Tail(data))

\* Mutant: the cache is loaded on a forced call too.
LoadCacheAlways(f, cache) ==
    IF cache.state = "json" THEN DictFromList(<<>>, cache.data) ELSE <<>>

\* if not force and os.path.exists(cache_file): try to load, else start fresh.
LoadCache(f, cache) ==
    IF ~f /\ cache.state = "json" THEN DictFromList(<<>>, cache.data) ELSE <<>>

\* ---------------------------------------------------- sync_library: diff

current_ids == IdsOf(current_api_albums)
cached_ids == IdsOf(cached_albums)
new_ids == current_ids \ cached_ids
deleted_ids == cached_ids \ current_ids

\* Mutant: an album of exactly expiry_days is kept (age.days <= expiry_days).
IsExpiredOneDayLate(album, t) ==
    LET is_expired == IF album.fetched_at_str = "iso"
                      THEN ~(t - album.fetched_at <= expiry_days)
                      ELSE TRUE
    IN  is_expired \/ ~album.has_size

\* age.days < expiry_days keeps the album; no or bad _fetched_at expires it;
\* so does a missing total_size_bytes.
IsExpired(album, t) ==
    LET is_expired == IF album.fetched_at_str = "iso"
                      THEN ~(t - album.fetched_at < expiry_days)
                      ELSE TRUE
    IN  is_expired \/ ~album.has_size

\* Mutant: the deleted albums are not passed over.
ExpiredIdsOfDeletedToo(f, t, cached, deleted) ==
    IF f THEN {}
    ELSE {cached[i].id : i \in {j \in DOMAIN cached : IsExpired(cached[j], t)}}

ExpiredIds(f, t, cached, deleted) ==
    IF f THEN {}
    ELSE {cached[i].id : i \in {j \in DOMAIN cached :
                                   /\ cached[j].id \notin deleted
                                   /\ IsExpired(cached[j], t)}}

ids_to_fetch == new_ids \cup expired_ids

\* ------------------------------------------------ sync_library: enrichment

Stamp(album, t) == [album EXCEPT !.fetched_at_str = "iso", !.fetched_at = t]

\* Mutant: the fallback entry is stored only while no other result has arrived.
EnrichedFallbackFirstOnly(enriched, listing, aid, outcome, t) ==
    IF outcome = "ok"
    THEN Append(enriched, Stamp(FetchAlbumDetails(aid, outcome).album, t))
    ELSE IF outcome = "none" /\ enriched = <<>> /\ \E i \in DOMAIN listing : listing[i].id = aid
         THEN Append(enriched, Stamp(ListingEntry(aid), t))
         ELSE enriched

\* The body of the as_completed loop for the future of aid.
Enriched(enriched, listing, aid, outcome, t) ==
    LET r == FetchAlbumDetails(aid, outcome)
    IN  IF r.status = "ok" THEN Append(enriched, Stamp(r.album, t))
        ELSE IF r.status = "none"
             THEN IF \E i \in DOMAIN listing : listing[i].id = aid
                  THEN LET k == CHOOSE i \in DOMAIN listing :
                                   /\ listing[i].id = aid
                                   /\ \A j \in DOMAIN listing : listing[j].id = aid => i <= j
                       IN  Append(enriched, Stamp(listing[k], t))
                  ELSE enriched
        ELSE enriched

\* --------------------------------------- sync_library: reconstruct and save

\* Mutant: an expired album stays in the list next to its re-fetched record.
PreservedThoughExpired(a) == a.id \notin deleted_ids

Preserved(a) == a.id \notin deleted_ids /\ a.id \notin expired_ids

\* Mutant: the preserved albums get the _fetched_at of this pass.
FinalLibraryRestamped ==
    LET kept == SelectSeq(cached_albums, Preserved)
    IN  [i \in DOMAIN kept |-> Stamp(kept[i], now)] \o new_enriched_albums

FinalLibrary == SelectSeq(cached_albums, Preserved) \o new_enriched_albums

SaveCache(old, final_library, wo) ==
    IF final_library # <<>> THEN WriteCache(old, final_library, wo) ELSE old

\* Mutant: the exception of a failed write of the cache is not caught.
SaveExceptReraise(final_library, wo) ==
    IF final_library # <<>> /\ wo # "ok" THEN "raised" ELSE "full"

\* except Exception: log an error. The call returns final_library whatever
\* the write did.
SaveExcept(final_library, wo) == "full"

\* ------------------------------------------------------------ the machine

NoOutcomes == [i \in Ids |-> "unfetched"]

\* kind: "none", "running", "skip", "full", "raised" or "crashed".
NoResult ==
    [kind |-> "none", albums |-> <<>>, force |-> FALSE, start |-> 0,
     fp |-> [count |-> 0, lastScan |-> 0], wroteMeta |-> FALSE, at |-> "idle"]

InitialCaches == {AbsentFile, LegacyCache, LongCache}

InitialListings == {1..n : n \in 1..MaxId}

\* No call of get_new_albums is looked at.
NoQuery ==
    /\ clock = 0
    /\ utc_offset = 0
    /\ hours = 0
    /\ all_albums = <<>>
    /\ new_albums = <<>>
    /\ returned = "no"

\* A thread that is in no function of interest.
NoThread == [at |-> "none", sync |-> "none"]

\* The application is not looked at: one call of sync_library at a time.
NoApp ==
    /\ run_on_startup = FALSE
    /\ scheduler_thread = NoThread
    /\ bot_thread = NoThread

\* No call of get_anniversary_albums is looked at.
NoAnniversary ==
    /\ day = 0
    /\ month = 0
    /\ anniversary_albums = <<>>
    /\ matches = <<>>
    /\ anniversary_returned = "no"

\* None of the further calls is looked at.
\* What _request gives when it is not called.
NoResponse == [kind |-> "unused", items |-> <<>>]

\* No call of get_top_albums_from_history is looked at.
NoHistory ==
    /\ response = NoResponse
    /\ fallback = NoResponse
    /\ days = 0
    /\ limit = 0
    /\ top_albums = <<>>
    /\ history_returned = "no"

\* The dictionary of get_server_stats before it is built.
NoStats == [albums |-> 0, artists |-> 0, songs |-> 0, size_bytes |-> 0]

\* No call of get_server_stats is looked at.
NoServerStats ==
    /\ stats_sync = "unused"
    /\ stats_albums = <<>>
    /\ stats = NoStats
    /\ stats_returned = "no"

\* The album of _fetch_album_details before it is built.
NoDetails == [has_song |-> FALSE, song |-> <<>>, total_size_bytes |-> 0]

\* No call of _fetch_album_details is looked at.
NoAlbumDetails ==
    /\ album_response = [kind |-> "unused", album |-> NoDetails]
    /\ details = NoDetails
    /\ details_returned = "no"

\* No call of format_album_list is looked at.
NoFormatting ==
    /\ format_albums = <<>>
    /\ message = <<>>
    /\ format_returned = "no"

\* normalize_dirs.py is not run.
NoNormalizer ==
    /\ argv_dry_run = FALSE
    /\ dry_run = FALSE
    /\ SKIP_EXISTING = TRUE
    /\ fs_dirs = {}
    /\ fs_files = {}
    /\ normalize_pc = "none"
    /\ album_dirs = {}
    /\ renamed_album_dir = <<>>
    /\ disc_map = {}
    /\ multi_disc = FALSE

\* No enrichment is looked at step by step.
NoPool ==
    /\ pool_ids = {}
    /\ future_to_id = {}
    /\ submits = <<>>
    /\ work_queue = <<>>
    /\ threads = 0
    /\ in_flight = {}
    /\ done_futures = {}
    /\ count = 0
    /\ pool_pc = "none"

\* No listing is looked at request by request.
NoListing ==
    /\ remote_pages = <<>>
    /\ remote_tail = "empty"
    /\ music_folder_id = FALSE
    /\ list_offset = 0
    /\ api_albums = <<>>
    /\ requests_made = <<>>
    /\ listing_pc = "none"

\* No remote call is looked at attempt by attempt.
NoHttp ==
    /\ http_call = "none"
    /\ http_answers = <<>>
    /\ attempts = 0
    /\ http_outcome = "no"

\* No message is split.
NoSplitting ==
    /\ text = <<>>
    /\ max_length = 0
    /\ chunks = <<>>
    /\ split_returned = FALSE

\* No update has come.
NoUpdate == [handler |-> "none", chat |-> 0, outcome |-> "none"]

\* The bot's handlers are not looked at.
NoBot ==
    /\ authorized_chat_ids = {}
    /\ keyboards = {}
    /\ last_update = NoUpdate

NoExtra ==
    /\ NoPool
    /\ NoListing
    /\ NoHttp
    /\ NoSplitting
    /\ NoBot

NoMore ==
    /\ NoAnniversary
    /\ NoHistory
    /\ NoServerStats
    /\ NoAlbumDetails
    /\ NoFormatting
    /\ NoNormalizer

Init ==
    /\ now = 0
    /\ remoteIds \in InitialListings
    /\ remoteFp = [count |-> Cardinality(remoteIds), lastScan |-> 0]
    /\ cacheFile \in InitialCaches
    /\ metaFile = AbsentMeta
    /\ pc = "idle"
    /\ force = FALSE
    /\ status = "unused"
    /\ cached_albums = <<>>
    /\ current_api_albums = <<>>
    /\ expired_ids = {}
    /\ pending = {}
    /\ new_enriched_albums = <<>>
    /\ outcomes = NoOutcomes
    /\ calls = 0
    /\ result = NoResult
    /\ NoApp
    /\ NoQuery
    /\ NoMore
    /\ NoExtra

locals == <<force, status, cached_albums, current_api_albums, expired_ids, pending,
            new_enriched_albums, outcomes>>
remote == <<remoteIds, remoteFp>>
files == <<cacheFile, metaFile>>

\* The frame of the call is gone once it returns, raises or dies.
ClearLocals ==
    /\ force' = FALSE
    /\ status' = "unused"
    /\ cached_albums' = <<>>
    /\ current_api_albums' = <<>>
    /\ expired_ids' = {}
    /\ pending' = {}
    /\ new_enriched_albums' = <<>>
    /\ outcomes' = NoOutcomes

\* sync_library(force=f), lines 189-250: the gate and the cache load. st is what
\* check_scan_status gives, mw how the write of scan_status.json goes. An
\* exception that left the gate uncaught would end the call ("raised").
Begin(f, st, mw) ==
    /\ pc = "idle"
    /\ calls < MaxCalls
    /\ f => st = "unused"
    /\ ~f => st \in {"ok", "scanning", "none", "raise"}
    /\ LET g == GateOutcome(f, st, remoteFp, metaFile, cacheFile)
           r == [NoResult EXCEPT !.kind = "running", !.force = f, !.start = now,
                                 !.fp = remoteFp,
                                 !.wroteMeta = (g = "save" /\ mw = "ok")]
       IN  /\ g # "save" => mw = "ok"
           /\ calls' = calls + 1
           /\ IF g = "skip"
              THEN /\ result' = [r EXCEPT !.kind = "skip", !.albums = cacheFile.data]
                   /\ pc' = "idle"
                   /\ status' = st
                   /\ UNCHANGED <<metaFile, force, cached_albums, current_api_albums,
                                  expired_ids, pending, new_enriched_albums, outcomes>>
              ELSE IF g = "exception"
              THEN /\ result' = [r EXCEPT !.kind = "raised", !.at = "gate"]
                   /\ pc' = "idle"
                   /\ status' = st
                   /\ UNCHANGED <<metaFile, force, cached_albums, current_api_albums,
                                  expired_ids, pending, new_enriched_albums, outcomes>>
              ELSE /\ result' = r
                   /\ metaFile' = IF g = "save" THEN WriteMeta(metaFile, remoteFp, mw)
                                  ELSE metaFile
                   /\ force' = f
                   /\ status' = st
                   /\ cached_albums' = LoadCache(f, cacheFile)
                   /\ pc' = "list"
                   /\ UNCHANGED <<current_api_albums, expired_ids, pending,
                                  new_enriched_albums, outcomes>>
    /\ UNCHANGED <<now, remote, cacheFile, app, query, more, extra>>

\* Lines 252-313: the listing, the diff and the expiry check. lo is what
\* _request('getAlbumList') does: "ok", "nodata" (None or no albumList) or "raise".
List(lo) ==
    /\ pc = "list"
    /\ IF lo = "raise"
       THEN /\ result' = [result EXCEPT !.kind = "raised", !.at = pc]
            /\ pc' = "idle"
            /\ ClearLocals
       ELSE LET listing == IF lo = "ok"
                           THEN [i \in 1..Cardinality(remoteIds) |->
                                    ListingEntry(SortedSeq(remoteIds)[i])]
                           ELSE <<>>
                expired == ExpiredIds(force, now, cached_albums,
                                      cached_ids \ IdsOf(listing))
            IN  /\ current_api_albums' = listing
                /\ expired_ids' = expired
                /\ pending' = (IdsOf(listing) \ cached_ids) \cup expired
                /\ pc' = "enrich"
                /\ UNCHANGED <<result, force, status, cached_albums,
                               new_enriched_albums, outcomes>>
    /\ UNCHANGED <<now, remote, files, calls, app, query, more, extra>>

\* Lines 331-353: one future completes and the loop handles it.
FetchDone(aid, outcome) ==
    /\ pc = "enrich"
    /\ aid \in pending
    /\ pending' = pending \ {aid}
    /\ new_enriched_albums' =
           Enriched(new_enriched_albums, current_api_albums, aid, outcome, now)
    /\ outcomes' = [outcomes EXCEPT ![aid] = outcome]
    /\ UNCHANGED <<now, remote, files, pc, force, status, cached_albums,
                   current_api_albums, expired_ids, calls, result, app, query, more, extra>>

\* Lines 355-375: reconstruct the list, save it, return it.
Finish(wo) ==
    /\ pc = "enrich"
    /\ pending = {}
    /\ FinalLibrary = <<>> => wo = "ok"
    /\ cacheFile' = SaveCache(cacheFile, FinalLibrary, wo)
    /\ result' = IF SaveExcept(FinalLibrary, wo) = "full"
                  THEN [result EXCEPT !.kind = "full", !.albums = FinalLibrary]
                  ELSE [result EXCEPT !.kind = "raised", !.at = "save"]
    /\ pc' = "idle"
    /\ ClearLocals
    /\ UNCHANGED <<now, remote, metaFile, calls, app, query, more, extra>>

\* The process dies during a pass; the files stay as they are.
Crash ==
    /\ pc # "idle"
    /\ result' = [result EXCEPT !.kind = "crashed", !.at = pc]
    /\ pc' = "idle"
    /\ ClearLocals
    /\ UNCHANGED <<now, remote, files, calls, app, query, more, extra>>

\* The server rescans its library: the listing and the scan status change.
RemoteScan(S) ==
    /\ pc = "idle"
    /\ remoteFp.lastScan < MaxScans
    /\ remoteIds' = S
    /\ remoteFp' = [count |-> Cardinality(S), lastScan |-> remoteFp.lastScan + 1]
    /\ UNCHANGED <<now, files, pc, locals, calls, result, app, query, more, extra>>

\* Days pass between two calls: one day less than the expiry, or the expiry.
Tick(d) ==
    /\ pc = "idle"
    /\ now + d <= MaxTime
    /\ now' = now + d
    /\ UNCHANGED <<remote, files, pc, locals, calls, result, app, query, more, extra>>

Next ==
    \/ \E f \in BOOLEAN, st \in {"unused", "ok", "scanning", "none", "raise"},
          mw \in WriteOutcomes : Begin(f, st, mw)
    \/ \E lo \in {"ok", "nodata", "raise"} : List(lo)
    \/ \E aid \in Ids, outcome \in {"ok", "none", "raise"} : FetchDone(aid, outcome)
    \/ \E wo \in WriteOutcomes : Finish(wo)
    \/ Crash
    \/ \E S \in SUBSET Ids : RemoteScan(S)
    \/ \E d \in {expiry_days - 1, expiry_days} : Tick(d)

Spec == Init /\ [][Next]_vars

\* --------------------------------------------- the application (main.py)

\* The variables of the single call of sync_library above.
sync == <<now, remoteIds, remoteFp, cacheFile, metaFile, pc, force, status,
          cached_albums, current_api_albums, expired_ids, pending,
          new_enriched_albums, outcomes, calls, result>>

\* The single call above is not looked at.
NoSync ==
    /\ now = 0
    /\ remoteIds = {}
    /\ remoteFp = [count |-> 0, lastScan |-> 0]
    /\ cacheFile = AbsentFile
    /\ metaFile = AbsentMeta
    /\ pc = "idle"
    /\ force = FALSE
    /\ status = "unused"
    /\ cached_albums = <<>>
    /\ current_api_albums = <<>>
    /\ expired_ids = {}
    /\ pending = {}
    /\ new_enriched_albums = <<>>
    /\ outcomes = NoOutcomes
    /\ calls = 0
    /\ result = NoResult

\* Where a sync_library call on /app/data/albums_cache.json can go from a
\* position: the gate may return the cache, the listing may raise.
SyncNext(position) ==
    IF position = "gate" THEN {"list", "return"}
    ELSE IF position = "list" THEN {"enrich", "raise"}
    ELSE IF position = "enrich" THEN {"save"}
    ELSE {"return"}

\* The thread is inside sync_library.
InSync(thread) == thread.sync \notin {"none", "return", "raise"}

\* The commands of the bot whose handlers call sync_library: get_stats through
\* get_server_stats, search_music and now_playing directly.
SyncingHandlers == {"get_stats", "search_music", "now_playing"}

\* main(): the bot instance is built and both threads are started.
InitApp ==
    /\ NoSync
    /\ NoQuery
    /\ NoMore
    /\ NoExtra
    /\ run_on_startup \in BOOLEAN
    /\ scheduler_thread = [at |-> "run_scheduler", sync |-> "none"]
    /\ bot_thread = [at |-> "run_bot_polling", sync |-> "none"]

\* run_scheduler: daily_job at once if RUN_ON_STARTUP, then the schedule loop.
RunScheduler ==
    /\ scheduler_thread.at = "run_scheduler"
    /\ scheduler_thread' = IF run_on_startup
                           THEN [at |-> "get_new_albums", sync |-> "gate"]
                           ELSE [at |-> "run_pending", sync |-> "none"]
    /\ UNCHANGED <<sync, query, more, extra, run_on_startup, bot_thread>>

\* schedule.run_pending() finds the daily job due: daily_job calls
\* client.get_new_albums(hours=24), which calls sync_library.
RunPending ==
    /\ scheduler_thread.at = "run_pending"
    /\ scheduler_thread' = [at |-> "get_new_albums", sync |-> "gate"]
    /\ UNCHANGED <<sync, query, more, extra, run_on_startup, bot_thread>>

\* daily_job: a step of the sync_library call under way; when it returns or
\* raises (the except of daily_job logs), get_anniversary_albums follows
\* get_new_albums, and the schedule loop follows get_anniversary_albums.
DailyJob(position) ==
    /\ scheduler_thread.at \in {"get_new_albums", "get_anniversary_albums"}
    /\ position \in SyncNext(scheduler_thread.sync)
    /\ scheduler_thread' =
          IF position \in {"return", "raise"}
          THEN IF scheduler_thread.at = "get_new_albums"
               THEN [at |-> "get_anniversary_albums", sync |-> "gate"]
               ELSE [at |-> "run_pending", sync |-> "none"]
          ELSE [scheduler_thread EXCEPT !.sync = position]
    /\ UNCHANGED <<sync, query, more, extra, run_on_startup, bot_thread>>

\* run_bot_polling: bot_instance.start_polling().
RunBotPolling ==
    /\ bot_thread.at = "run_bot_polling"
    /\ bot_thread' = [at |-> "polling", sync |-> "none"]
    /\ UNCHANGED <<sync, query, more, extra, run_on_startup, scheduler_thread>>

\* A command arrives and its handler reaches its call of sync_library.
Handle(command) ==
    /\ bot_thread.at = "polling"
    /\ bot_thread' = [at |-> command, sync |-> "gate"]
    /\ UNCHANGED <<sync, query, more, extra, run_on_startup, scheduler_thread>>

\* A step of the sync_library call of the handler; when it returns or raises
\* the handler ends, now_playing after one call for each entry.
Handler(position, again) ==
    /\ bot_thread.at \in SyncingHandlers
    /\ position \in SyncNext(bot_thread.sync)
    /\ again => (bot_thread.at = "now_playing" /\ position = "return")
    /\ bot_thread' =
          IF again THEN [bot_thread EXCEPT !.sync = "gate"]
          ELSE IF position \in {"return", "raise"}
          THEN [at |-> "polling", sync |-> "none"]
          ELSE [bot_thread EXCEPT !.sync = position]
    /\ UNCHANGED <<sync, query, more, extra, run_on_startup, scheduler_thread>>

NextApp ==
    \/ RunScheduler
    \/ RunPending
    \/ \E position \in {"list", "enrich", "save", "return", "raise"} : DailyJob(position)
    \/ RunBotPolling
    \/ \E command \in SyncingHandlers : Handle(command)
    \/ \E position \in {"list", "enrich", "save", "return", "raise"}, again \in BOOLEAN :
          Handler(position, again)

SpecApp == InitApp /\ [][NextApp]_vars

\* ------------------------------------------------------- get_new_albums

\* Time is counted in hours here. The 'created' of an album is missing (no
\* key, None or ''), a string fromisoformat rejects, or an ISO timestamp: the
\* hour it shows and its ending, none, 'Z' or '+02:00'.
CreatedValues ==
    {[kind |-> k, wall |-> 0, suffix |-> ""] : k \in {"missing", "bad"}}
        \cup {[kind |-> "iso", wall |-> w, suffix |-> x] :
                  w \in 10..12, x \in {"", "Z", "+02:00"}}

\* The lists sync_library may hand over: up to MaxAlbums albums.
QueryAlbums ==
    UNION {{[i \in 1..n |-> [id |-> i, created |-> f[i]]] : f \in [1..n -> CreatedValues]} :
              n \in 0..MaxAlbums}

\* The local time of the process is UTC or two hours ahead of it.
LocalOffsets == {0, 2}

\* datetime.now() - timedelta(hours), a naive local time, then labelled UTC.
Cutoff(clk, offset, h) == (clk + offset) - h

\* fromisoformat of the string ('Z' read as '+00:00'), a naive result taken as
\* UTC: the instant in hours UTC.
CreatedDt(created) ==
    created.wall - (IF created.suffix = "+02:00" THEN 2 ELSE 0)

\* The body of the loop: a missing 'created' is passed over, a ValueError of
\* fromisoformat is caught, the album is kept if created_dt > cutoff.
IsNew(album, cutoff) ==
    /\ album.created.kind = "iso"
    /\ CreatedDt(album.created) > cutoff

\* The order of the endings as strings: the end of the string, '+', 'Z'.
SuffixRank(suffix) == IF suffix = "" THEN 0 ELSE IF suffix = "+02:00" THEN 1 ELSE 2

\* a < b for the 'created' strings of two albums.
CreatedLess(a, b) ==
    \/ a.wall < b.wall
    \/ a.wall = b.wall /\ SuffixRank(a.suffix) < SuffixRank(b.suffix)

\* list.sort(key=lambda x: x.get('created', ''), reverse=True): by the string,
\* greatest first, albums of equal strings in their order.
RECURSIVE InsertDesc(_, _)
InsertDesc(sorted, album) ==
    IF sorted = <<>> THEN <<album>>
    ELSE IF CreatedLess(Head(sorted).created, album.created) THEN <<album>> \o sorted
    ELSE <<Head(sorted)>> \o InsertDesc(Tail(sorted), album)

RECURSIVE SortCreatedDesc(_, _)
SortCreatedDesc(sorted, albums) ==
    IF albums = <<>> THEN sorted
    ELSE SortCreatedDesc(InsertDesc(sorted, Head(albums)), Tail(albums))

GetNewAlbums(albums, clk, offset, h) ==
    LET cutoff == Cutoff(clk, offset, h)
        keep(album) == IsNew(album, cutoff)
    IN  SortCreatedDesc(<<>>, SelectSeq(albums, keep))

InitQuery ==
    /\ NoSync
    /\ NoApp
    /\ NoMore
    /\ NoExtra
    /\ clock = 12
    /\ utc_offset \in LocalOffsets
    /\ hours \in {1, 3}
    /\ all_albums \in QueryAlbums
    /\ new_albums = <<>>
    /\ returned = "no"

\* get_new_albums(hours), after sync_library has returned all_albums.
GetNewAlbumsCall ==
    /\ returned = "no"
    /\ new_albums' = GetNewAlbums(all_albums, clock, utc_offset, hours)
    /\ returned' = "yes"
    /\ UNCHANGED <<sync, app, more, extra, clock, utc_offset, hours, all_albums>>

NextQuery == GetNewAlbumsCall

SpecQuery == InitQuery /\ [][NextQuery]_vars

\* ----------------------------------------------- get_anniversary_albums

\* What an album dictionary holds under a date key. "absent": no such key, or
\* None. "empty": an empty dict or string. "dict": a dict with the keys year,
\* month, day, a 0 where the key is missing or None. "str": a string of
\* `length` characters; year, month, day are what date.fromisoformat makes of
\* its first ten characters, three 0 where it raises ValueError.
AbsentDate == [kind |-> "absent", year |-> 0, month |-> 0, day |-> 0, length |-> 0]

EmptyDate == [kind |-> "empty", year |-> 0, month |-> 0, day |-> 0, length |-> 0]

DictDate(y, m, d) == [kind |-> "dict", year |-> y, month |-> m, day |-> d, length |-> 0]

StrDate(n, y, m, d) == [kind |-> "str", year |-> y, month |-> m, day |-> d, length |-> n]

\* The values of 'releaseDate' looked at: none, {}, {year: 2024},
\* {year: 2024, month: 5, day: 17}, {year: 2023, month: 5, day: 18},
\* '1999-05-17', '1999-05-17T00:00:00Z', '2024' and '17/05/2024'.
ReleaseDateValues ==
    {AbsentDate, EmptyDate, DictDate(2024, 0, 0), DictDate(2024, 5, 17),
     DictDate(2023, 5, 18), StrDate(10, 1999, 5, 17), StrDate(20, 1999, 5, 17),
     StrDate(4, 0, 0, 0), StrDate(10, 0, 0, 0)}

\* The values of 'originalReleaseDate' looked at.
OriginalReleaseDateValues == {AbsentDate, DictDate(2024, 0, 0), DictDate(2024, 5, 17)}

\* The other date keys looked at: none of them, or one of them with a string.
OtherDateValues ==
    {[date |-> AbsentDate, originalDate |-> AbsentDate, published |-> AbsentDate],
     [date |-> StrDate(10, 2001, 5, 17), originalDate |-> AbsentDate, published |-> AbsentDate],
     [date |-> AbsentDate, originalDate |-> StrDate(10, 2001, 5, 18), published |-> AbsentDate],
     [date |-> EmptyDate, originalDate |-> AbsentDate, published |-> StrDate(20, 2001, 5, 17)]}

AnniversaryAlbum(i, release, original, other) ==
    [id |-> i, releaseDate |-> release, originalReleaseDate |-> original,
     date |-> other.date, originalDate |-> other.originalDate,
     published |-> other.published]

\* The lists sync_library may hand over: up to MaxAlbums albums.
AnniversaryAlbums(max) ==
    UNION {{[i \in 1..n |-> AnniversaryAlbum(i, r[i], o[i], x[i])] :
               r \in [1..n -> ReleaseDateValues],
               o \in [1..n -> OriginalReleaseDateValues],
               x \in [1..n -> OtherDateValues]} : n \in 0..max}

possible_keys == <<"releaseDate", "date", "originalDate", "published">>

\* `k in album and album[k]`
Truthy(value) == value.kind \notin {"absent", "empty"}

\* The loop over possible_keys: the value of the first key that has one.
RECURSIVE FirstDate(_, _)
FirstDate(album, keys) ==
    IF keys = <<>> THEN AbsentDate
    ELSE IF Truthy(album[Head(keys)]) THEN album[Head(keys)]
    ELSE FirstDate(album, Tail(keys))

\* Case 1: a dict whose 'month' and 'day' are those asked for.
DictMatches(release_date, d, m) ==
    /\ release_date.kind = "dict"
    /\ release_date.month = m
    /\ release_date.day = d

\* s_date = str(release_date): the string itself, and for a dict its repr,
\* "{'year': ...", longer than ten characters and no date.
StrOf(release_date) ==
    IF release_date.kind = "dict" THEN StrDate(IsoDateLength + 1, 0, 0, 0)
    ELSE release_date

\* Case 2: len(s_date) >= 10, fromisoformat(s_date[:10]) with its ValueError
\* passed over, then the month and the day of the date.
StrMatches(s_date, d, m) ==
    /\ s_date.length >= IsoDateLength
    /\ s_date.year # 0
    /\ s_date.month = m
    /\ s_date.day = d

\* The body of the loop over all_albums.
IsAnniversary(album, d, m) ==
    LET release_date == FirstDate(album, possible_keys)
    IN  /\ Truthy(release_date)
        /\ \/ DictMatches(release_date, d, m)
           \/ StrMatches(StrOf(release_date), d, m)

GetAnniversaryAlbums(albums, d, m) ==
    LET keep(album) == IsAnniversary(album, d, m)
    IN  SelectSeq(albums, keep)

InitAnniversary ==
    /\ NoSync
    /\ NoApp
    /\ NoQuery
    /\ NoHistory
    /\ NoServerStats
    /\ NoAlbumDetails
    /\ NoFormatting
    /\ NoNormalizer
    /\ NoExtra
    /\ day \in {17, 18}
    /\ month = 5
    /\ anniversary_albums \in AnniversaryAlbums(MaxAlbums)
    /\ matches = <<>>
    /\ anniversary_returned = "no"

\* get_anniversary_albums(day, month), after sync_library has returned
\* anniversary_albums. No exception leaves the loop: the try around the body
\* catches Exception.
GetAnniversaryAlbumsCall ==
    /\ anniversary_returned = "no"
    /\ matches' = GetAnniversaryAlbums(anniversary_albums, day, month)
    /\ anniversary_returned' = "yes"
    /\ UNCHANGED <<extra, sync, app, query, history, server_stats, album_details, formatting, normalizer,
                   day, month, anniversary_albums>>

NextAnniversary == GetAnniversaryAlbumsCall

SpecAnniversary == InitAnniversary /\ [][NextAnniversary]_vars

\* ------------------------------------------ get_top_albums_from_history

\* Integers of the play history are counted in thousands: a 'played' of
\* 1700000000000 (milliseconds) is 1700000000 here, one of 1700000000
\* (seconds) is 1700000, and the 10^11 of the heuristic is SecondsBelow. An
\* instant is counted in thousands of seconds since the epoch; HistoryNow is
\* datetime.now(utc) of the call.

\* The 'played' of an entry: missing (no key, None, 0, ''), a string
\* fromisoformat rejects, an integer, or an ISO string: the wall time it
\* shows and its ending, none, 'Z' or '+10:00'.
PlayedInt(n) == [kind |-> "int", value |-> n, suffix |-> ""]

PlayedStr(wall, x) == [kind |-> "str", value |-> wall, suffix |-> x]

\* The instants looked at: the first of the window, the one before it, and
\* the instant of the call.
PlayedInstants == {HistoryNow - 605, HistoryNow - 604, HistoryNow}

PlayedValues ==
    {[kind |-> k, value |-> 0, suffix |-> ""] : k \in {"missing", "bad"}}
        \cup {PlayedInt(t) : t \in PlayedInstants}
        \cup {PlayedInt(t * 1000) : t \in PlayedInstants}
        \cup {PlayedStr(t, x) : t \in PlayedInstants, x \in {"", "Z"}}
        \cup {PlayedStr(t + 36, "+10:00") : t \in PlayedInstants}

\* An entry of the history; an albumId of 0 is a missing one.
HistoryEntries == [played : PlayedValues, albumId : 0..MaxId]

\* What _request gives: "none" (no base URL, or a body that is no JSON),
\* "failed" (status 'failed': it raises Exception), "error" (a
\* RequestException, raised again), "bare" (a response without the key asked
\* for), or "ok" with the items under the key.
Unavailable == {[kind |-> k, items |-> <<>>] : k \in {"none", "failed", "error", "bare"}}

HistoryResponses(max) ==
    UNION {{[kind |-> "ok", items |-> e] : e \in [1..n -> HistoryEntries]} : n \in 0..max}

\* The 'frequent' listing of the server.
FrequentAlbums == {<<>>, <<[id |-> 2, playCount |-> 5], [id |-> 1, playCount |-> 3]>>}

FrequentResponses == {[kind |-> "ok", items |-> a] : a \in FrequentAlbums}

\* _request raises.
Raises(r) == r.kind \in {"failed", "error"}

\* timedelta(days=d), in hundreds of seconds.
Timedelta(d) == d * 864

\* Every integer read as milliseconds.
PlayedDtMillisOnly(played_val) ==
    IF played_val.kind = "int" THEN played_val.value \div 1000
    ELSE played_val.value - (IF played_val.suffix = "+10:00" THEN 36 ELSE 0)

\* The try of the loop: the integer read as seconds below 10^11 and as
\* milliseconds otherwise, fromtimestamp(played_ms / 1000.0, tz=utc); the
\* string with 'Z' read as '+00:00', fromisoformat, a naive result taken as
\* UTC.
PlayedDt(played_val) ==
    IF played_val.kind = "int"
    THEN LET played_ms == IF played_val.value < SecondsBelow
                          THEN played_val.value * 1000 ELSE played_val.value
         IN  played_ms \div 1000
    ELSE played_val.value - (IF played_val.suffix = "+10:00" THEN 36 ELSE 0)

\* The body of the loop passes the entry on to the count: 'played' is there
\* and can be read, played_dt is not before the cutoff, albumId is there.
Counted(entry, d) ==
    /\ entry.played.kind \in {"int", "str"}
    /\ ~(10 * PlayedDt(entry.played) < 10 * HistoryNow - Timedelta(d))
    /\ entry.albumId # 0

\* album_stats after the loop, in the order of the dict: an album enters at
\* its first counted entry.
RECURSIVE AlbumStats(_, _, _)
AlbumStats(album_stats, entries, d) ==
    IF entries = <<>> THEN album_stats
    ELSE LET entry == Head(entries)
             at == {i \in DOMAIN album_stats : album_stats[i].id = entry.albumId}
             counted ==
                 IF ~Counted(entry, d) THEN album_stats
                 ELSE IF at = {}
                      THEN Append(album_stats, [id |-> entry.albumId, playCount |-> 1])
                      ELSE [i \in DOMAIN album_stats |->
                               IF i \in at
                               THEN [album_stats[i] EXCEPT !.playCount = @ + 1]
                               ELSE album_stats[i]]
         IN  AlbumStats(counted, Tail(entries), d)

\* sorted(..., key=playCount, reverse=True): the greater count first, albums
\* of equal counts in their order.
RECURSIVE InsertByPlayCount(_, _)
InsertByPlayCount(sorted, album) ==
    IF sorted = <<>> THEN <<album>>
    ELSE IF Head(sorted).playCount < album.playCount THEN <<album>> \o sorted
    ELSE <<Head(sorted)>> \o InsertByPlayCount(Tail(sorted), album)

RECURSIVE SortByPlayCount(_, _)
SortByPlayCount(sorted, albums) ==
    IF albums = <<>> THEN sorted
    ELSE SortByPlayCount(InsertByPlayCount(sorted, Head(albums)), Tail(albums))

\* top_albums[:limit]
FirstN(albums, n) == SubSeq(albums, 1, Min(n, Len(albums)))

\* The call: what it returns, or that it raises.
GetTopAlbumsFromHistory(resp, fb, d, n) ==
    IF Raises(resp) THEN [returned |-> "raised", albums |-> <<>>]
    ELSE IF resp.kind # "ok"
    THEN IF Raises(fb) THEN [returned |-> "raised", albums |-> <<>>]
         ELSE [returned |-> "yes", albums |-> fb.items]
    ELSE [returned |-> "yes",
          albums |-> FirstN(SortByPlayCount(<<>>, AlbumStats(<<>>, resp.items, d)), n)]

InitHistory ==
    /\ NoSync
    /\ NoApp
    /\ NoQuery
    /\ NoAnniversary
    /\ NoServerStats
    /\ NoAlbumDetails
    /\ NoFormatting
    /\ NoNormalizer
    /\ NoExtra
    /\ \/ response \in HistoryResponses(MaxEvents) /\ fallback = NoResponse
       \/ response \in Unavailable /\ fallback \in Unavailable \cup FrequentResponses
    /\ days = 7
    /\ limit \in {1, 10}
    /\ top_albums = <<>>
    /\ history_returned = "no"

\* get_top_albums_from_history(days, limit).
GetTopAlbumsFromHistoryCall ==
    /\ history_returned = "no"
    /\ LET call == GetTopAlbumsFromHistory(response, fallback, days, limit)
       IN  /\ top_albums' = call.albums
           /\ history_returned' = call.returned
    /\ UNCHANGED <<extra, sync, app, query, anniversary, server_stats, album_details, formatting,
                   normalizer, response, fallback, days, limit>>

NextHistory == GetTopAlbumsFromHistoryCall

SpecHistory == InitHistory /\ [][NextHistory]_vars

\* ------------------------------------------------------- get_server_stats

\* The keys of an album get_server_stats reads. artist is '' where the key
\* is missing, None or ''; songCount and total_size_bytes may be missing.
StatsAlbumValues ==
    [id : Ids, artist : {"", "Artist 1", "artist 1"},
     has_songCount : {TRUE}, songCount : {5, 10},
     has_size : {TRUE}, total_size_bytes : {512, 1024}]
        \cup [id : Ids, artist : {"", "Artist 1", "artist 1"},
              has_songCount : {FALSE}, songCount : {0},
              has_size : {FALSE}, total_size_bytes : {0}]
        \cup [id : Ids, artist : {"Artist 1"},
              has_songCount : {TRUE}, songCount : {5},
              has_size : {FALSE}, total_size_bytes : {0}]

\* The lists sync_library may hand over: up to MaxAlbums albums, two of them
\* with the same id as well.
StatsAlbums(max) == UNION {[1..n -> StatsAlbumValues] : n \in 0..max}

\* len(all_albums) counted by id.
CountDistinctIds(albums) == Cardinality(IdsOf(albums))

\* len(all_albums)
CountAlbums(albums) == Len(albums)

\* The set `artists` after the loop.
Artists(albums) == {albums[i].artist : i \in DOMAIN albums} \ {""}

\* total_songs after the loop: album.get('songCount', 0) added up.
RECURSIVE TotalSongs(_)
TotalSongs(albums) ==
    IF albums = <<>> THEN 0
    ELSE (IF Head(albums).has_songCount THEN Head(albums).songCount ELSE 0)
             + TotalSongs(Tail(albums))

\* total_size_bytes after the loop: album.get('total_size_bytes', 0) added up.
RECURSIVE TotalSizeBytes(_)
TotalSizeBytes(albums) ==
    IF albums = <<>> THEN 0
    ELSE (IF Head(albums).has_size THEN Head(albums).total_size_bytes ELSE 0)
             + TotalSizeBytes(Tail(albums))

\* The call: the dictionary, or None from the except around the whole body.
GetServerStats(outcome, albums) ==
    IF outcome = "raise" THEN [returned |-> "none", stats |-> NoStats]
    ELSE [returned |-> "stats",
          stats |-> [albums |-> CountAlbums(albums),
                     artists |-> Cardinality(Artists(albums)),
                     songs |-> TotalSongs(albums),
                     size_bytes |-> TotalSizeBytes(albums)]]

InitStats ==
    /\ NoSync
    /\ NoApp
    /\ NoQuery
    /\ NoAnniversary
    /\ NoHistory
    /\ NoAlbumDetails
    /\ NoFormatting
    /\ NoNormalizer
    /\ NoExtra
    /\ \/ stats_sync = "ok" /\ stats_albums \in StatsAlbums(MaxAlbums)
       \/ stats_sync = "raise" /\ stats_albums = <<>>
    /\ stats = NoStats
    /\ stats_returned = "no"

\* get_server_stats().
GetServerStatsCall ==
    /\ stats_returned = "no"
    /\ LET call == GetServerStats(stats_sync, stats_albums)
       IN  /\ stats' = call.stats
           /\ stats_returned' = call.returned
    /\ UNCHANGED <<extra, sync, app, query, anniversary, history, album_details, formatting,
                   normalizer,
                   stats_sync, stats_albums>>

NextStats == GetServerStatsCall

SpecStats == InitStats /\ [][NextStats]_vars

\* --------------------------------------------------- _fetch_album_details

\* A song of getAlbum: with a 'size' or without one.
SongValues ==
    {[has_size |-> FALSE, size |-> 0]}
        \cup {[has_size |-> TRUE, size |-> n] : n \in {0, 100, 200}}

\* The 'album' of a getAlbum response: without 'song', or with up to
\* MaxSongs songs.
AlbumValues ==
    {[has_song |-> FALSE, song |-> <<>>, total_size_bytes |-> 0]}
        \cup UNION {{[has_song |-> TRUE, song |-> l, total_size_bytes |-> 0] :
                        l \in [1..n -> SongValues]} : n \in 0..MaxSongs}

\* What _request('getAlbum') gives: None, a response without 'album', an
\* exception (status 'failed', RequestException), or a response with 'album'.
AlbumResponses ==
    {[kind |-> k, album |-> NoDetails] : k \in {"none", "bare", "failed", "error"}}
        \cup {[kind |-> "ok", album |-> a] : a \in AlbumValues}

\* The size of the first song only.
TotalSizeFirstSong(album) ==
    IF album.has_song /\ album.song # <<>> /\ album.song[1].has_size
    THEN album.song[1].size ELSE 0

\* total_size after lines 164-167.
TotalSize(album) == IF album.has_song THEN SumSizes(album.song) ELSE 0

\* The call: the album with its total_size_bytes, None, or the exception of
\* _request.
FetchAlbumDetailsOf(resp) ==
    IF Raises(resp) THEN [returned |-> "raised", album |-> NoDetails]
    ELSE IF resp.kind = "ok"
    THEN [returned |-> "album",
          album |-> [resp.album EXCEPT !.total_size_bytes = TotalSize(resp.album)]]
    ELSE [returned |-> "none", album |-> NoDetails]

InitDetails ==
    /\ NoSync
    /\ NoApp
    /\ NoQuery
    /\ NoAnniversary
    /\ NoHistory
    /\ NoServerStats
    /\ NoFormatting
    /\ NoNormalizer
    /\ NoExtra
    /\ album_response \in AlbumResponses
    /\ details = NoDetails
    /\ details_returned = "no"

\* _fetch_album_details(album_id).
FetchAlbumDetailsCall ==
    /\ details_returned = "no"
    /\ LET call == FetchAlbumDetailsOf(album_response)
       IN  /\ details' = call.album
           /\ details_returned' = call.returned
    /\ UNCHANGED <<extra, sync, app, query, anniversary, history, server_stats, formatting,
                   normalizer,
                   album_response>>

NextDetails == FetchAlbumDetailsCall

SpecDetails == InitDetails /\ [][NextDetails]_vars

\* ------------------------------------------------------ format_album_list

\* What an album holds under 'originalReleaseDate' or 'releaseDate': nothing
\* (no key, or None), an empty dict, a dict with year, month and day (0: the
\* key is missing or None), or a string.
NoDate == [kind |-> "absent", year |-> 0, month |-> 0, day |-> 0, text |-> ""]

EmptyItemDate == [kind |-> "empty", year |-> 0, month |-> 0, day |-> 0, text |-> ""]

ItemDate(y, m, d) == [kind |-> "dict", year |-> y, month |-> m, day |-> d, text |-> ""]

TextDate(t) == [kind |-> "str", year |-> 0, month |-> 0, day |-> 0, text |-> t]

\* The values of 'originalReleaseDate' looked at.
OriginalDates ==
    {NoDate, EmptyItemDate, ItemDate(1990, 0, 0), ItemDate(1990, 8, 0),
     ItemDate(1990, 5, 17), TextDate("1994-01-01")}

\* The values of 'releaseDate' looked at.
ReleaseDates ==
    {NoDate, ItemDate(2024, 0, 0), ItemDate(2023, 8, 0), ItemDate(2023, 5, 20),
     TextDate("2025"), TextDate("2025-11"), TextDate("abc")}

\* The albums handed to format_album_list; a 'year' of 0 is a missing one.
FormatAlbums(max) ==
    UNION {[1..n -> [originalReleaseDate : OriginalDates, releaseDate : ReleaseDates,
                     year : {0, 1999}]] : n \in 0..max}

\* f"{n:02d}"
TwoDigits(n) == IF n < 10 THEN "0" \o ToString(n) ELSE ToString(n)

\* The date always written with month and day.
FmtFullAlways(y, m, d) ==
    IF y # 0
    THEN ToString(y) \o "-" \o TwoDigits(IF m # 0 THEN m ELSE 1)
                    \o "-" \o TwoDigits(IF d # 0 THEN d ELSE 1)
    ELSE ""

\* fmt of a dict: 'Y-MM-DD', 'Y-MM', 'Y', or '' without a year.
Fmt(y, m, d) ==
    IF y # 0 /\ m # 0 /\ d # 0
    THEN ToString(y) \o "-" \o TwoDigits(m) \o "-" \o TwoDigits(d)
    ELSE IF y # 0 /\ m # 0 THEN ToString(y) \o "-" \o TwoDigits(m)
    ELSE IF y # 0 THEN ToString(y)
    ELSE ""

\* score of a dict: one for each of year, month, day it has.
DictScore(val) ==
    (IF val.year # 0 THEN 1 ELSE 0) + (IF val.month # 0 THEN 1 ELSE 0)
        + (IF val.day # 0 THEN 1 ELSE 0)

\* score of a string by its length.
StrScore(val) == IF Len(val.text) = 4 THEN 1 ELSE IF Len(val.text) <= 7 THEN 2 ELSE 3

\* The candidates of a value: one (score, text) pair, or none.
Candidates(val) ==
    IF val.kind = "dict"
    THEN IF Fmt(val.year, val.month, val.day) # ""
         THEN <<[score |-> DictScore(val), fmt |-> Fmt(val.year, val.month, val.day)]>>
         ELSE <<>>
    ELSE IF val.kind = "str" /\ Len(val.text) >= 4
    THEN <<[score |-> StrScore(val), fmt |-> val.text]>>
    ELSE <<>>

\* candidates.sort(key=score, reverse=True): the greater score first,
\* candidates of equal scores in their order.
RECURSIVE InsertByScore(_, _)
InsertByScore(sorted, candidate) ==
    IF sorted = <<>> THEN <<candidate>>
    ELSE IF Head(sorted).score < candidate.score THEN <<candidate>> \o sorted
    ELSE <<Head(sorted)>> \o InsertByScore(Tail(sorted), candidate)

RECURSIVE SortByScore(_, _)
SortByScore(sorted, candidates) ==
    IF candidates = <<>> THEN sorted
    ELSE SortByScore(InsertByScore(sorted, Head(candidates)), Tail(candidates))

\* _extract_best_date: the text of the first candidate after the sort, ''
\* for None.
ExtractBestDate(album) ==
    LET candidates == Candidates(album.originalReleaseDate) \o Candidates(album.releaseDate)
    IN  IF candidates = <<>> THEN ""
        ELSE SortByScore(<<>>, candidates)[1].fmt

\* date_display of an album.
DateDisplay(album) ==
    LET best_date == ExtractBestDate(album)
    IN  IF best_date # "" THEN best_date
        ELSE IF album.year # 0 THEN ToString(album.year) ELSE ""

InitFormat ==
    /\ NoSync
    /\ NoApp
    /\ NoQuery
    /\ NoAnniversary
    /\ NoHistory
    /\ NoServerStats
    /\ NoAlbumDetails
    /\ NoNormalizer
    /\ NoExtra
    /\ format_albums \in FormatAlbums(MaxAlbums)
    /\ message = <<>>
    /\ format_returned = "no"

\* format_album_list(albums, intro_text): None for an empty list, else the
\* message; of its lines the one with the date of each album is kept.
FormatAlbumListCall ==
    /\ format_returned = "no"
    /\ IF format_albums = <<>>
       THEN /\ message' = <<>>
            /\ format_returned' = "none"
       ELSE /\ message' = [i \in DOMAIN format_albums |-> DateDisplay(format_albums[i])]
            /\ format_returned' = "message"
    /\ UNCHANGED <<extra, sync, app, query, anniversary, history, server_stats,
                   album_details, normalizer, format_albums>>

NextFormat == FormatAlbumListCall

SpecFormat == InitFormat /\ [][NextFormat]_vars

\* --------------------------------------------------------- normalize_dirs

\* A path below the source root is the sequence of its names. A file is its
\* path and what mutagen reads from it, the track and the disc number. The
\* files carry the tags of one album; AlbumDirName is what
\* build_album_dir_name makes of them.
AlbumDirName == "Artist - (2024) Album"

Parent(path) == SubSeq(path, 1, Len(path) - 1)

\* The path and the directories above it, as mkdir(parents=True) makes them.
WithParents(path) == {SubSeq(path, 1, k) : k \in 1..Len(path)}

\* Helper.padded(n, 2)
padded(n) == IF n < 10 THEN "0" \o ToString(n) ELSE ToString(n)

\* The name of a track that has not been placed.
RawName(track) == "track" \o ToString(track) \o ".m4a"

\* f"{track_num}. {artist} - {title}{suffix}" after sanitize_filename.
TrackName(track) == padded(track) \o ". Artist - Title " \o ToString(track) \o ".m4a"

\* A tree below the source root: the album directory a with n tracks, those
\* of raw under their raw names, the last track on disc d; with c a second
\* directory that has the name the album is to get; with dup the first
\* track under its final name as well.
Tree(a, n, raw, d, c, dup) ==
    [dirs |-> {<<a>>} \cup (IF c THEN {<<AlbumDirName>>} ELSE {}),
     files |->
         {[path |-> <<a, IF t \in raw THEN RawName(t) ELSE TrackName(t)>>,
           track |-> t, disc |-> IF t = n THEN d ELSE 1] : t \in 1..n}
             \cup (IF c THEN {[path |-> <<AlbumDirName, TrackName(1)>>,
                               track |-> 1, disc |-> 1]} ELSE {})
             \cup (IF dup THEN {[path |-> <<a, TrackName(1)>>,
                                 track |-> 1, disc |-> 1]} ELSE {})]

\* The trees the script is run on.
InitialTrees ==
    {Tree(x[1], x[2], x[3], x[4], x[5], x[6]) :
        x \in {y \in {"album", AlbumDirName} \X (1..MaxTracks) \X (SUBSET (1..MaxTracks))
                      \X {1, 2} \X BOOLEAN \X BOOLEAN :
                  /\ y[3] \subseteq 1..y[2]
                  /\ y[5] => y[1] = "album"
                  /\ y[6] => 1 \in y[3]}}

\* Path.exists()
Exists(path) == path \in fs_dirs \/ \E f \in fs_files : f.path = path

\* The dry_run main hands to Normalizer.normalize: the call at line 599 has
\* no argument, so it is the default of the parameter.
NormalizeArgument(args_dry_run) == FALSE

\* _find_album_dirs: the directories that hold an audio file themselves.
FindAlbumDirs == {Parent(f.path) : f \in fs_files}

\* _gather_audio_files, and the re-scan of process_album: the audio files of
\* the directory and of its immediate subdirectories.
GatherAudioFiles(in_dirs, in_files, album_dir) ==
    {f \in in_files :
        \/ Parent(f.path) = album_dir
        \/ Parent(f.path) \in in_dirs /\ Len(f.path) >= 2
              /\ Parent(Parent(f.path)) = album_dir}

\* Path.rename of a directory: every path below it moves with it.
RenamePath(path, src, dst) ==
    IF Len(path) >= Len(src) /\ SubSeq(path, 1, Len(src)) = src
    THEN dst \o SubSeq(path, Len(src) + 1, Len(path))
    ELSE path

InitNormalize ==
    /\ NoSync
    /\ NoApp
    /\ NoQuery
    /\ NoAnniversary
    /\ NoHistory
    /\ NoServerStats
    /\ NoAlbumDetails
    /\ NoFormatting
    /\ NoExtra
    /\ argv_dry_run \in BOOLEAN
    /\ dry_run = FALSE
    /\ SKIP_EXISTING \in BOOLEAN
    /\ \E tree \in InitialTrees :
          /\ fs_dirs = tree.dirs
          /\ fs_files = tree.files
    /\ normalize_pc = "main"
    /\ album_dirs = {}
    /\ renamed_album_dir = <<>>
    /\ disc_map = {}
    /\ multi_disc = FALSE

others == <<extra, sync, app, query, anniversary, history, server_stats, album_details,
            formatting>>

\* main: the arguments are parsed, the album directories found, and
\* normalize() is called.
Main ==
    /\ normalize_pc = "main"
    /\ dry_run' = NormalizeArgument(argv_dry_run)
    /\ album_dirs' = FindAlbumDirs
    /\ normalize_pc' = "albums"
    /\ UNCHANGED <<others, argv_dry_run, SKIP_EXISTING, fs_dirs, fs_files,
                   renamed_album_dir, disc_map, multi_disc>>

\* process_album up to the loop over the files, lines 420-496, for one
\* directory of the list. rename is how Path.rename goes, "ok" or "fail". An
\* exception ends the album in the except of normalize: the directory is
\* gone, or renamed_album_dir is not bound (the name it is to get is taken),
\* or, in a dry run, is a directory that does not exist.
ProcessAlbum(ad, rename) ==
    /\ normalize_pc = "albums"
    /\ ad \in album_dirs
    /\ album_dirs' = album_dirs \ {ad}
    /\ LET target_album_dir == Parent(ad) \o <<AlbumDirName>>
           named == ad[Len(ad)] = AlbumDirName
           taken == Exists(target_album_dir) /\ target_album_dir # ad
           renames == ~named /\ ~taken /\ ~dry_run /\ rename = "ok"
           raises ==
               \/ ad \notin fs_dirs
               \/ GatherAudioFiles(fs_dirs, fs_files, ad) # {} /\ ~named
                      /\ (taken \/ dry_run)
           new_dirs == IF renames
                   THEN {RenamePath(d, ad, target_album_dir) : d \in fs_dirs}
                   ELSE fs_dirs
           new_files == IF renames
                    THEN {[f EXCEPT !.path = RenamePath(f.path, ad, target_album_dir)] :
                             f \in fs_files}
                    ELSE fs_files
           new_dir == IF renames THEN target_album_dir ELSE ad
           found == GatherAudioFiles(new_dirs, new_files, new_dir)
       IN  /\ (named \/ taken \/ dry_run) => rename = "ok"
           /\ IF raises \/ GatherAudioFiles(fs_dirs, fs_files, ad) = {}
              THEN UNCHANGED <<fs_dirs, fs_files, normalize_pc, renamed_album_dir,
                               disc_map, multi_disc>>
              ELSE /\ fs_dirs' = new_dirs
                   /\ fs_files' = new_files
                   /\ renamed_album_dir' = new_dir
                   /\ disc_map' = found
                   /\ multi_disc' = (Cardinality({f.disc : f \in found}) > 1)
                   /\ normalize_pc' = "files"
    /\ UNCHANGED <<others, argv_dry_run, dry_run, SKIP_EXISTING>>

\* One turn of the loop over disc_map, lines 499-525, with ensure_dir and
\* move_or_rename: the file is left, or, when this is no dry run, the
\* directory is made, a file in the way is unlinked and the file is moved.
PlaceFile(file) ==
    /\ normalize_pc = "files"
    /\ file \in disc_map
    /\ disc_map' = disc_map \ {file}
    /\ LET target_dir == IF multi_disc
                         THEN renamed_album_dir \o <<"Disc " \o ToString(file.disc)>>
                         ELSE renamed_album_dir
           target_path == IF multi_disc
                          THEN target_dir \o <<ToString(file.disc),
                                               "[1, 2] " \o TrackName(file.track)>>
                          ELSE target_dir \o <<TrackName(file.track)>>
           moves == file \in fs_files
       IN  IF \/ file.path = target_path
              \/ Exists(target_path) /\ SKIP_EXISTING
              \/ dry_run
              \/ target_path \in fs_dirs
           THEN UNCHANGED <<fs_dirs, fs_files>>
           ELSE /\ fs_dirs' = fs_dirs \cup WithParents(Parent(target_path))
                /\ fs_files' =
                       {f \in fs_files : f.path # target_path /\ (moves => f # file)}
                           \cup (IF moves THEN {[file EXCEPT !.path = target_path]} ELSE {})
    /\ UNCHANGED <<others, argv_dry_run, dry_run, SKIP_EXISTING, normalize_pc,
                   album_dirs, renamed_album_dir, multi_disc>>

\* process_album returns.
AlbumEnd ==
    /\ normalize_pc = "files"
    /\ disc_map = {}
    /\ normalize_pc' = "albums"
    /\ UNCHANGED <<others, argv_dry_run, dry_run, SKIP_EXISTING, fs_dirs, fs_files,
                   album_dirs, renamed_album_dir, disc_map, multi_disc>>

\* normalize and main return.
Exit ==
    /\ normalize_pc = "albums"
    /\ album_dirs = {}
    /\ normalize_pc' = "done"
    /\ UNCHANGED <<others, argv_dry_run, dry_run, SKIP_EXISTING, fs_dirs, fs_files,
                   album_dirs, renamed_album_dir, disc_map, multi_disc>>

NextNormalize ==
    \/ Main
    \/ \E ad \in album_dirs, rename \in {"ok", "fail"} : ProcessAlbum(ad, rename)
    \/ \E file \in disc_map : PlaceFile(file)
    \/ AlbumEnd
    \/ Exit

SpecNormalize == InitNormalize /\ [][NextNormalize]_vars

\* ------------------------------------- sync_library: the enrichment's pool

\* Lines 320-353 step by step: the executor of ThreadPoolExecutor(max_workers),
\* the submission of one _fetch_album_details per id, the workers, and the
\* as_completed loop of the calling thread. The ids are submitted in
\* ascending order and the queue is first in, first out. What the futures
\* return is left to FetchDone of the pass above.

\* A worker can take a work item: it is a thread that runs none.
IdleWorkerOrMore(n_threads, running) == TRUE

IdleWorker(n_threads, running) == Cardinality(running) < n_threads

\* submit() starts a thread unless max_workers of them exist.
AdjustThreadCount(n_threads) ==
    IF n_threads < max_workers THEN n_threads + 1 ELSE n_threads

\* as_completed is exhausted: every future of future_to_id was yielded.
AsCompletedEndsEarly(n_handled, futures) == n_handled >= 1

AsCompletedEnds(n_handled, futures) == n_handled = Cardinality(futures)

InitPool ==
    /\ NoSync
    /\ NoApp
    /\ NoQuery
    /\ NoMore
    /\ NoListing
    /\ NoHttp
    /\ NoSplitting
    /\ NoBot
    /\ \E n \in 0..MaxFetch : pool_ids = 1..n
    /\ future_to_id = {}
    /\ submits = [aid \in 1..MaxFetch |-> 0]
    /\ work_queue = <<>>
    /\ threads = 0
    /\ in_flight = {}
    /\ done_futures = {}
    /\ count = 0
    /\ pool_pc = "submit"

\* Line 320: with nothing to fetch no executor is made.
NothingToFetch ==
    /\ pool_pc = "submit"
    /\ pool_ids = {}
    /\ pool_pc' = "reconcile"
    /\ UNCHANGED <<sync, app, query, more, listing_loop, http, splitting, bot, pool_ids, future_to_id, submits, work_queue,
                   threads, in_flight, done_futures, count>>

\* Line 326, one turn of the comprehension: executor.submit for the next id.
\* spawn tells whether a thread is started, which an idle worker can make
\* unnecessary.
Submit(aid, spawn) ==
    /\ pool_pc = "submit"
    /\ aid \in pool_ids \ future_to_id
    /\ \A other \in pool_ids \ future_to_id : aid <= other
    /\ ~spawn => IdleWorker(threads, in_flight)
    /\ future_to_id' = future_to_id \cup {aid}
    /\ submits' = [submits EXCEPT ![aid] = @ + 1]
    /\ work_queue' = Append(work_queue, aid)
    /\ threads' = IF spawn THEN AdjustThreadCount(threads) ELSE threads
    /\ pool_pc' = IF future_to_id' = pool_ids THEN "as_completed" ELSE "submit"
    /\ UNCHANGED <<sync, app, query, more, listing_loop, http, splitting, bot, pool_ids, in_flight, done_futures, count>>

\* A worker takes the head of the queue and calls _fetch_album_details.
WorkerStarts ==
    /\ work_queue # <<>>
    /\ IdleWorker(threads, in_flight)
    /\ in_flight' = in_flight \cup {Head(work_queue)}
    /\ work_queue' = Tail(work_queue)
    /\ UNCHANGED <<sync, app, query, more, listing_loop, http, splitting, bot, pool_ids, future_to_id, submits, threads,
                   done_futures, count, pool_pc>>

\* _fetch_album_details returns or raises: the future is done.
WorkerEnds(aid) ==
    /\ aid \in in_flight
    /\ in_flight' = in_flight \ {aid}
    /\ done_futures' = done_futures \cup {aid}
    /\ UNCHANGED <<sync, app, query, more, listing_loop, http, splitting, bot, pool_ids, future_to_id, submits, work_queue,
                   threads, count, pool_pc>>

\* Lines 331-353: as_completed yields a done future and the loop handles it.
HandleFuture ==
    /\ pool_pc = "as_completed"
    /\ count < Cardinality(done_futures)
    /\ count' = count + 1
    /\ UNCHANGED <<sync, app, query, more, listing_loop, http, splitting, bot, pool_ids, future_to_id, submits, work_queue,
                   threads, in_flight, done_futures, pool_pc>>

\* The loop ends, the with block shuts the executor down, and line 355 is
\* reached.
Reconcile ==
    /\ pool_pc = "as_completed"
    /\ AsCompletedEnds(count, future_to_id)
    /\ pool_pc' = "reconcile"
    /\ UNCHANGED <<sync, app, query, more, listing_loop, http, splitting, bot, pool_ids, future_to_id, submits, work_queue,
                   threads, in_flight, done_futures, count>>

NextPool ==
    \/ NothingToFetch
    \/ \E aid \in pool_ids, spawn \in BOOLEAN : Submit(aid, spawn)
    \/ WorkerStarts
    \/ \E aid \in in_flight : WorkerEnds(aid)
    \/ HandleFuture
    \/ Reconcile

SpecPool == InitPool /\ [][NextPool]_vars

\* ------------------------------------------ sync_library: the listing loop

\* Lines 252-278 request by request. An answer of the server to getAlbumList
\* is a page of albums (their ids), no data (_request gives None, or the
\* response has no 'albumList'), or an exception of _request.
Page(batch) == [kind |-> "page", album |-> batch]
NoData == [kind |-> "nodata", album |-> <<>>]
RequestRaises == [kind |-> "raise", album |-> <<>>]

Batches == UNION {[1..n -> 1..2] : n \in 0..MaxPageLen}

Answers == {Page(batch) : batch \in Batches} \cup {NoData, RequestRaises}

\* The answer to the request at offset o: the server is asked size albums
\* from o on; after its last answer it has nothing more, or, a server that
\* takes no notice of the offset, gives the last one again.
AnswerAt(pages, tail, o) ==
    LET i == (o \div size) + 1
    IN  IF i <= Len(pages) THEN pages[i]
        ELSE IF tail = "repeat" THEN pages[Len(pages)]
        ELSE Page(<<>>)

\* Line 274: current_api_albums.extend(batch).
ExtendWithNew(albums, batch) ==
    albums \o SelectSeq(batch, LAMBDA a : \A i \in 1..Len(albums) : albums[i] # a)

Extend(albums, batch) == albums \o batch

\* Lines 267-272: the loop is left.
LoopBreaks(answer) == answer.kind = "nodata" \/ answer.album = <<>>

InitListing ==
    /\ NoSync
    /\ NoApp
    /\ NoQuery
    /\ NoMore
    /\ NoPool
    /\ NoHttp
    /\ NoSplitting
    /\ NoBot
    /\ remote_pages \in UNION {[1..n -> Answers] : n \in 1..MaxPages}
    /\ remote_tail \in {"empty", "repeat"}
    /\ music_folder_id \in BOOLEAN
    /\ list_offset = 0
    /\ api_albums = <<>>
    /\ requests_made = <<>>
    /\ listing_pc = "loop"

\* One turn of the while loop, lines 259-275. folder is what
\* get_music_folder_id does when the id is not kept yet: "found", "notfound",
\* or "raise" (its own request raises).
ListRequest(folder) ==
    /\ listing_pc = "loop"
    /\ Len(requests_made) < MaxRequests
    /\ music_folder_id => folder = "found"
    /\ IF folder = "raise"
       THEN /\ listing_pc' = "raised"
            /\ UNCHANGED <<music_folder_id, list_offset, api_albums, requests_made>>
       ELSE LET answer == AnswerAt(remote_pages, remote_tail, list_offset)
            IN  /\ music_folder_id' = (folder = "found")
                /\ requests_made' = Append(requests_made, list_offset)
                /\ IF answer.kind = "raise"
                   THEN /\ listing_pc' = "raised"
                        /\ UNCHANGED <<list_offset, api_albums>>
                   ELSE IF LoopBreaks(answer)
                   THEN /\ listing_pc' = "done"
                        /\ UNCHANGED <<list_offset, api_albums>>
                   ELSE /\ api_albums' = Extend(api_albums, answer.album)
                        /\ list_offset' = list_offset + size
                        /\ listing_pc' = "loop"
    /\ UNCHANGED <<sync, app, query, more, pool, http, splitting, bot, remote_pages,
                   remote_tail>>

NextListing == \E folder \in {"found", "notfound", "raise"} : ListRequest(folder)

SpecListing == InitListing /\ [][NextListing]_vars /\ WF_vars(NextListing)

\* ------------------------------------------------ the client's remote calls

\* The methods of NavidromeClient that send an HTTP request: _request, for
\* every endpoint of the API, through self.session, and get_cover_art_bytes
\* through requests.get.
RemoteCalls == {"_request", "get_cover_art_bytes"}

\* Retry(status_forcelist=...), line 42.
status_forcelist == {429, 500, 502, 503, 504}

\* The server's answers: HTTP 200 with a body that is a response of status
\* 'ok', one of status 'failed', or no JSON; or HTTP 404 or a status of the
\* list above, whose body is not read.
HttpAnswers ==
    {[code |-> 200, body |-> b] : b \in {"ok", "failed", "nojson"}}
        \cup {[code |-> c, body |-> "unread"] : c \in {404} \cup status_forcelist}

\* The call goes through the session on which line 45-47 mount the adapter
\* with the retry strategy.
UsesSession(call) == call = "_request"

\* The adapter sends the request again: the status is in the list, the
\* method is GET, which is allowed, and fewer than total retries were made.
RetriesFailedToo(call, answer, sent) ==
    /\ UsesSession(call)
    /\ answer.code \in status_forcelist \/ answer.body = "failed"
    /\ sent <= total

Retries(call, answer, sent) ==
    UsesSession(call) /\ answer.code \in status_forcelist /\ sent <= total

\* How the call ends on an answer that is not retried. _request, lines
\* 94-117: it raises again what session.get or raise_for_status raised,
\* returns None for a body that is no JSON, raises Exception for status
\* 'failed', and returns the response otherwise. get_cover_art_bytes, lines
\* 735-742: the content, or None on any RequestException.
Outcome(call, answer) ==
    IF call = "_request"
    THEN IF answer.code # 200 THEN "raised"
         ELSE IF answer.body = "nojson" THEN "none"
         ELSE IF answer.body = "failed" THEN "raised"
         ELSE "response"
    ELSE IF answer.code = 200 THEN "response" ELSE "none"

InitHttp ==
    /\ NoSync
    /\ NoApp
    /\ NoQuery
    /\ NoMore
    /\ NoPool
    /\ NoListing
    /\ NoSplitting
    /\ NoBot
    /\ http_call \in RemoteCalls
    /\ http_answers \in [1..(total + 1) -> HttpAnswers]
    /\ attempts = 0
    /\ http_outcome = "no"

\* The request is sent, for the first time or again, and answered.
Attempt ==
    /\ http_call # "none"
    /\ http_outcome = "no"
    /\ attempts' = attempts + 1
    /\ http_outcome' = IF Retries(http_call, http_answers[attempts'], attempts')
                        THEN "no"
                        ELSE Outcome(http_call, http_answers[attempts'])
    /\ UNCHANGED <<sync, app, query, more, pool, listing_loop, splitting, bot, http_call,
                   http_answers>>

NextHttp == Attempt

SpecHttp == InitHttp /\ [][NextHttp]_vars

\* ------------------------------------------------ TelegramBot._split_message

\* A text is the sequence of its characters: letters, all written "a", and
\* newlines.
NL == "\n"

Texts(max) == UNION {[1..n -> {"a", NL}] : n \in 0..max}

\* s[i:] and s[:n]
From(s, i) == SubSeq(s, i, Len(s))

Upto(s, n) == SubSeq(s, 1, Min(n, Len(s)))

\* text.split('\n\n'): the pieces between the double newlines, found from
\* left to right.
RECURSIVE SplitAlbums(_)
SplitAlbums(s) ==
    LET at == {i \in 1..(Len(s) - 1) : s[i] = NL /\ s[i + 1] = NL}
    IN  IF at = {} THEN <<s>>
        ELSE LET i == CHOOSE k \in at : \A other \in at : k <= other
             IN  <<SubSeq(s, 1, i - 1)>> \o SplitAlbums(From(s, i + 2))

\* s.rstrip()
RECURSIVE RStrip(_)
RStrip(s) ==
    IF s # <<>> /\ s[Len(s)] = NL THEN RStrip(SubSeq(s, 1, Len(s) - 1)) ELSE s

\* The chunk that line 524 starts with the album that did not fit.
NextChunk(album, n) == album \o <<NL, NL>>

\* Lines 516-531, the loop over the albums from the i-th on: acc is the
\* chunks so far and the current chunk.
RECURSIVE SplitLoop(_, _, _, _)
SplitLoop(albums, i, acc, n) ==
    IF i > Len(albums) THEN acc
    ELSE LET album == albums[i]
             test_chunk == acc.current_chunk \o album \o <<NL, NL>>
         IN  IF Len(test_chunk) > n
             THEN IF acc.current_chunk # <<>>
                  THEN SplitLoop(albums, i + 1,
                                 [chunks |-> Append(acc.chunks, RStrip(acc.current_chunk)),
                                  current_chunk |-> NextChunk(album, n)], n)
                  ELSE SplitLoop(albums, i + 1,
                                 [chunks |-> Append(acc.chunks, Upto(album, n)),
                                  current_chunk |-> <<>>], n)
             ELSE SplitLoop(albums, i + 1,
                            [chunks |-> acc.chunks, current_chunk |-> test_chunk], n)

\* _split_message(text, max_length), lines 510-539.
SplitMessage(s, n) ==
    IF Len(s) <= n THEN <<s>>
    ELSE LET acc == SplitLoop(SplitAlbums(s), 1,
                              [chunks |-> <<>>, current_chunk |-> <<>>], n)
         IN  IF acc.current_chunk # <<>>
             THEN Append(acc.chunks, RStrip(acc.current_chunk))
             ELSE acc.chunks

InitSplit ==
    /\ NoSync
    /\ NoApp
    /\ NoQuery
    /\ NoMore
    /\ NoPool
    /\ NoListing
    /\ NoHttp
    /\ NoBot
    /\ text \in Texts(MaxTextLen)
    /\ max_length \in 1..MaxLength
    /\ chunks = <<>>
    /\ split_returned = FALSE

SplitMessageCall ==
    /\ max_length > 0
    /\ ~split_returned
    /\ chunks' = SplitMessage(text, max_length)
    /\ split_returned' = TRUE
    /\ UNCHANGED <<sync, app, query, more, pool, listing_loop, http, bot, text, max_length>>

NextSplit == SplitMessageCall

SpecSplit == InitSplit /\ [][NextSplit]_vars

\* ------------------------------------------------- the bot's handlers

\* The chats an update can come from.
Chats == 1..MaxChat

\* The message handlers _register_handlers registers, each behind
\* authorized_only.
MessageHandlers ==
    {"send_welcome", "get_stats", "get_random_album", "search_music", "now_playing",
     "list_genres"}

\* _is_authorized(chat_id), lines 69-85.
IsAuthorized(chat_id) ==
    IF authorized_chat_ids = {} THEN FALSE ELSE chat_id \in authorized_chat_ids

\* __init__, lines 54-63, and the chats of Telegram: the ids of the secret,
\* none when it is empty, and the genre keyboards the bot has sent so far,
\* under this configuration or an earlier one.
InitBot ==
    /\ NoSync
    /\ NoApp
    /\ NoQuery
    /\ NoMore
    /\ NoPool
    /\ NoListing
    /\ NoHttp
    /\ NoSplitting
    /\ authorized_chat_ids \in SUBSET Chats
    /\ keyboards \in SUBSET Chats
    /\ last_update = NoUpdate

\* A command comes from a chat: the wrapper of authorized_only, lines 95-99,
\* and behind it the handler. list_genres sends a keyboard unless the
\* server has no genres.
HandleMessage(handler, chat_id, genres) ==
    /\ handler \in MessageHandlers
    /\ IF ~IsAuthorized(chat_id)
       THEN /\ last_update' = [handler |-> handler, chat |-> chat_id,
                               outcome |-> "rejected"]
            /\ UNCHANGED keyboards
       ELSE /\ last_update' = [handler |-> handler, chat |-> chat_id,
                               outcome |-> "served"]
            /\ keyboards' = IF handler = "list_genres" /\ genres
                            THEN keyboards \cup {chat_id} ELSE keyboards
    /\ UNCHANGED <<sync, app, query, more, pool, listing_loop, http, splitting,
                   authorized_chat_ids>>

\* A button of a genre keyboard is pressed in a chat: handle_callback, lines
\* 395-437, asks the server for albums of the genre and answers in the chat;
\* with albums found it deletes the keyboard.
HandleCallback(chat_id, found) ==
    /\ chat_id \in keyboards
    /\ last_update' = [handler |-> "handle_callback", chat |-> chat_id,
                       outcome |-> "served"]
    /\ keyboards' = IF found THEN keyboards \ {chat_id} ELSE keyboards
    /\ UNCHANGED <<sync, app, query, more, pool, listing_loop, http, splitting,
                   authorized_chat_ids>>

NextBot ==
    \/ \E handler \in MessageHandlers, chat_id \in Chats, genres \in BOOLEAN :
          HandleMessage(handler, chat_id, genres)
    \/ \E chat_id \in Chats, found \in BOOLEAN : HandleCallback(chat_id, found)

SpecBot == InitBot /\ [][NextBot]_vars

\* ------------------------------------------------------------ the claims

\* A step in which a sync_library call begins (and, on the skip path, returns).
BeginStep == calls' = calls + 1

\* The step in which a full pass returns its final_library.
FinishStep == pc = "enrich" /\ result'.kind = "full"

\* The albums of the cache file, as a reader of the file sees them.
FileAlbums(file) == IF file.state = "json" THEN file.data ELSE <<>>

\* C1: after a full pass that returns, the identifiers of the returned snapshot
\* are exactly the identifiers of the listing, whatever the detail fetches did.
C1_SnapshotIdsAreListingIds ==
    [][FinishStep => IdsOf(result'.albums) = current_ids]_vars

\* C2: a failed detail fetch (no data, or an exception) leaves the failing
\* identifier in the returned snapshot as its listing entry, and leaves the
\* records of the other identifiers as they would be without the failure.
C2_FailedFetchFallsBackToListing ==
    [][FinishStep =>
         \A aid \in Ids :
            outcomes[aid] \in {"none", "raise"} =>
               /\ \E i \in DOMAIN result'.albums :
                     /\ result'.albums[i].id = aid
                     /\ ~result'.albums[i].detailed
               /\ \A b \in Ids \ {aid} :
                     outcomes[b] = "ok" =>
                        \E i \in DOMAIN result'.albums :
                           /\ result'.albums[i].id = b
                           /\ result'.albums[i].detailed
               /\ \A k \in DOMAIN cached_albums :
                     Preserved(cached_albums[k]) =>
                        \E i \in DOMAIN result'.albums :
                           result'.albums[i] = cached_albums[k]]_vars

\* C3: in every full pass, every record stored in the snapshot for a listed
\* identifier whose detail fetch failed has total_size_bytes = 0 and a
\* _fetched_at stamped during the pass.
C3_FallbackHasZeroSizeAndFreshStamp ==
    [][FinishStep =>
         \A aid \in current_ids :
            outcomes[aid] \in {"none", "raise"} =>
               \A i \in DOMAIN result'.albums :
                  result'.albums[i].id = aid =>
                     /\ result'.albums[i].has_size
                     /\ result'.albums[i].total_size_bytes = 0
                     /\ result'.albums[i].fetched_at_str = "iso"
                     /\ result'.albums[i].fetched_at >= result.start
                     /\ result'.albums[i].fetched_at <= now]_vars

\* A record stored by the fallback branch: a listing entry with a timestamp.
IsFallbackRecord(a) == ~a.detailed /\ a.fetched_at_str = "iso"

\* C4: a non-forced pass that starts less than expiry_days after an identifier
\* was stored as a fallback record does not select that identifier for
\* fetching while it is still listed.
C4_FallbackNotRefetchedWithinExpiry ==
    (pc = "enrich" /\ ~force) =>
        \A k \in DOMAIN cached_albums :
           ( /\ IsFallbackRecord(cached_albums[k])
             /\ result.start - cached_albums[k].fetched_at < expiry_days
             /\ cached_albums[k].id \in current_ids )
           => cached_albums[k].id \notin ids_to_fetch

\* A cached record that is expiry_days old or older.
IsOld(a, t) == a.fetched_at_str = "iso" /\ t - a.fetched_at >= expiry_days

\* The step in which a call returns a snapshot: the skip path or a full pass.
ReturnStep ==
    \/ BeginStep /\ result'.kind = "skip"
    \/ FinishStep

\* The identifier is in the listing the call obtained (a skipped call obtains
\* none: then the server's listing).
StillListed(aid) == IF pc = "enrich" THEN aid \in current_ids ELSE aid \in remoteIds

\* A detail fetch for the identifier was dispatched and has completed.
Refetched(aid) == pc = "enrich" /\ aid \in Ids /\ outcomes[aid] # "unfetched"

RefreshedIn(albums, a) ==
    \A j \in DOMAIN albums :
       albums[j].id = a.id =>
          albums[j].fetched_at_str = "iso" /\ albums[j].fetched_at > a.fetched_at

FingerprintMatches ==
    /\ metaFile.state = "json"
    /\ metaFile.count = remoteFp.count
    /\ metaFile.lastScan = remoteFp.lastScan

\* Each of the first MigrationSample records of the snapshot file has total_size_bytes.
SampleHasSizes ==
    \A i \in DOMAIN cacheFile.data : i <= MigrationSample => cacheFile.data[i].has_size

\* C6: a non-forced call takes the skip path, returning the snapshot file as it
\* is without listing or fetching, if and only if the scan status was obtained
\* and is not scanning, it equals the persisted fingerprint, the snapshot file
\* is readable, and each of its first 20 records has total_size_bytes.
C6_SkipIffGateConditions ==
    [][(BeginStep /\ ~result'.force) =>
         /\ (result'.kind = "skip") <=>
               ( /\ status' = "ok"
                 /\ FingerprintMatches
                 /\ cacheFile.state = "json"
                 /\ SampleHasSizes )
         /\ (result'.kind = "skip") =>
               ( /\ result'.albums = cacheFile.data
                 /\ pc' = "idle"
                 /\ current_api_albums' = <<>>
                 /\ outcomes' = NoOutcomes
                 /\ UNCHANGED <<cacheFile, metaFile>> )]_vars

\* A call skipped on a snapshot longer than the sample whose records beyond
\* the sample lack total_size_bytes.
C6_Witness ==
    /\ result.kind = "skip"
    /\ ~result.force
    /\ Len(result.albums) > MigrationSample
    /\ \E i \in DOMAIN result.albums : ~result.albums[i].has_size

\* The identifiers whose detail fetch has been dispatched: done or pending.
Dispatched == {aid \in Ids : outcomes[aid] # "unfetched"} \cup pending

\* C7: a forced call never takes the skip path and never reuses a cached
\* record: it goes on to the listing, loads nothing from the cache, and
\* dispatches a detail fetch for every listed identifier.
C7_ForceListsAndFetchesAll ==
    /\ result.force => result.kind \notin {"skip", "none"}
    /\ (result.force /\ result.kind = "running") => pc \in {"list", "enrich"}
    /\ (result.force /\ result.kind = "raised") => result.at = "list"
    /\ (force /\ pc \in {"list", "enrich"}) => cached_albums = <<>>
    /\ (force /\ pc = "enrich") =>
          /\ ids_to_fetch = current_ids
          /\ Dispatched = current_ids
          /\ pending = {} => IdsOf(FinalLibrary) \subseteq
                                {aid \in Ids : outcomes[aid] \in {"ok", "none"}}

\* A forced pass has fetched every listed album although the gate would have
\* skipped and the cache held a fresh, complete record of a listed album.
C7_Witness ==
    /\ pc = "enrich"
    /\ force
    /\ pending = {}
    /\ current_ids # {}
    /\ FingerprintMatches
    /\ cacheFile.state = "json"
    /\ SampleHasSizes
    /\ \E i \in DOMAIN cacheFile.data :
          /\ cacheFile.data[i].id \in current_ids
          /\ ~IsExpired(cacheFile.data[i], now)

\* The gate met a failure: no scan status, an exception from the status call,
\* a missing or unreadable fingerprint file, a missing or unreadable snapshot
\* file behind a matching fingerprint, or a failed write of the fingerprint.
GateFailure ==
    \/ status' \in {"none", "raise"}
    \/ /\ status' = "ok"
       /\ \/ metaFile.state \in {"absent", "corrupt"}
          \/ FingerprintMatches /\ cacheFile.state \in {"absent", "corrupt"}
          \/ metaFile' = CorruptMeta
          \/ result'.kind # "skip" /\ ~result'.wroteMeta

\* C8: a failure in the gate is not fatal: the call does not raise, it goes on
\* to the listing of a full pass, and an unreadable snapshot loads as empty.
C8_GateFailureProceedsToFullPass ==
    [][(BeginStep /\ ~result'.force /\ GateFailure) =>
         /\ result'.kind = "running"
         /\ pc' = "list"
         /\ cacheFile.state # "json" => cached_albums' = <<>>]_vars

\* A call whose gate found a matching fingerprint and could not read the
\* snapshot file has gone on to the listing.
C8_Witness ==
    /\ pc = "list"
    /\ ~force
    /\ status = "ok"
    /\ FingerprintMatches
    /\ cacheFile.state = "corrupt"
    /\ ~result.wroteMeta

\* C9: after a pass died during enrichment, having written the fingerprint,
\* the next non-forced call does not skip and return a snapshot that differs
\* from the server's listing.
C9_NoSkipAfterCrashedPass ==
    [][(/\ BeginStep
        /\ result.kind = "crashed"
        /\ result.at = "enrich"
        /\ result.wroteMeta
        /\ ~result'.force)
       => ~(result'.kind = "skip" /\ IdsOf(result'.albums) # remoteIds)]_vars

\* The identifiers of a snapshot with their _fetched_at values.
Stamps(albums) ==
    {<<albums[i].id, albums[i].fetched_at_str, albums[i].fetched_at>> : i \in DOMAIN albums}

\* C10: when a non-forced call returns a snapshot and the next non-forced call,
\* with no remote change since the first began and less than expiry_days
\* later, takes the skip path, the second returns the identifiers and
\* _fetched_at values the first returned.
C10_SkippedCallRepeatsPreviousSnapshot ==
    [][(/\ BeginStep
        /\ result.kind \in {"skip", "full"}
        /\ ~result.force
        /\ ~result'.force
        /\ result'.kind = "skip"
        /\ result.fp = remoteFp
        /\ now - result.start < expiry_days)
       => Stamps(result'.albums) = Stamps(result.albums)]_vars

\* The records of a list of albums, as an unordered collection.
Records(albums) == {albums[i] : i \in DOMAIN albums}

\* What the detail fetch of aid contributes to the snapshot, by its outcome alone.
FetchedRecords(aid) ==
    IF outcomes[aid] = "ok" THEN {Stamp(FetchAlbumDetails(aid, "ok").album, now)}
    ELSE IF outcomes[aid] = "none" /\ aid \in current_ids THEN {Stamp(ListingEntry(aid), now)}
    ELSE {}

\* The snapshot as the prior cache, the listing and the outcome of each fetch
\* determine it, without regard to the order in which the fetches completed.
SnapshotByOutcomes ==
    {cached_albums[k] : k \in {j \in DOMAIN cached_albums : Preserved(cached_albums[j])}}
        \cup UNION {FetchedRecords(aid) : aid \in ids_to_fetch \ pending}

UniqueIds(albums) ==
    \A i, j \in DOMAIN albums : albums[i].id = albums[j].id => i = j

\* The record was produced in this pass by the detail fetch of its identifier
\* or by the fallback of that fetch.
ProducedThisPass(a) ==
    /\ a.id \in ids_to_fetch
    /\ outcomes[a.id] \in {"ok", "none"}
    /\ a.detailed <=> outcomes[a.id] = "ok"
    /\ a.fetched_at_str = "iso"
    /\ a.fetched_at >= result.start

\* The record is in the snapshot file as the pass found it and was not selected
\* for fetching.
CarriedOver(a) ==
    /\ a \in Records(FileAlbums(cacheFile))
    /\ a.id \notin ids_to_fetch

\* C12: in every snapshot that sync_library returns or writes, no identifier
\* occurs twice, and every record of a full pass is either a record of the
\* prior snapshot carried over as it was or a record produced by a detail
\* fetch, or its fallback, of this pass.
C12_UniqueIdsAndProvenance ==
    /\ cacheFile.state = "json" => UniqueIds(cacheFile.data)
    /\ result.kind \in {"skip", "full"} => UniqueIds(result.albums)
    /\ pc = "enrich" =>
          /\ UniqueIds(FinalLibrary)
          /\ \A i \in DOMAIN FinalLibrary :
                CarriedOver(FinalLibrary[i]) \/ ProducedThisPass(FinalLibrary[i])

\* A pass is about to return a record carried over from the snapshot file
\* next to a record it fetched.
C12_Witness ==
    /\ pc = "enrich"
    /\ pending = {}
    /\ \E i, j \in DOMAIN FinalLibrary :
          /\ CarriedOver(FinalLibrary[i])
          /\ ProducedThisPass(FinalLibrary[j])
          /\ expired_ids # {}

\* C13: during a pass the loaded prior snapshot stays what was read from the
\* snapshot file, and every cached record that is neither deleted nor expired
\* is in the snapshot the pass returns with the content it had in the file,
\* its _fetched_at included.
C13_PreservedRecordsUntouched ==
    pc \in {"list", "enrich"} =>
        /\ cached_albums = LoadCache(force, cacheFile)
        /\ pc = "enrich" =>
              \A k \in DOMAIN cached_albums :
                 ( /\ cached_albums[k].id \notin deleted_ids
                   /\ cached_albums[k].id \notin expired_ids )
                 => /\ cached_albums[k] \in Records(FileAlbums(cacheFile))
                    /\ cached_albums[k] \in Records(FinalLibrary)

\* A pass is about to return a record fetched on an earlier day as it was,
\* after re-fetching an expired record of the same cache.
C13_Witness ==
    /\ pc = "enrich"
    /\ pending = {}
    /\ \E k \in DOMAIN cached_albums :
          /\ Preserved(cached_albums[k])
          /\ cached_albums[k].fetched_at_str = "iso"
          /\ cached_albums[k].fetched_at < now
          /\ cached_albums[k] \in Records(FinalLibrary)
    /\ \E aid \in expired_ids : outcomes[aid] = "ok"

\* A remote call of the pass, the listing or a detail fetch, has raised.
RemoteErrorInPass ==
    \/ pc = "list" /\ result'.kind = "raised"
    \/ pc = "enrich" /\ \E aid \in Ids : outcomes[aid] = "raise"

\* The step in which a pass over an existing snapshot file ends, by a return
\* or by an exception.
PassEndStep ==
    /\ pc \in {"list", "enrich"}
    /\ result'.kind \in {"full", "raised"}
    /\ cacheFile.state = "json"

\* C14: a pass in which the listing or a detail fetch met a fatal remote error
\* is aborted, and the snapshot file is after the pass what it was before.
C14_RemoteErrorLeavesSnapshotFile ==
    [][(PassEndStep /\ RemoteErrorInPass) =>
          /\ result'.kind = "raised"
          /\ cacheFile' = cacheFile]_vars

\* C15: a pass over an existing snapshot file that fails because of a remote
\* error in the listing or in a detail fetch gives its caller the records of
\* that file, the last snapshot known to be good.
C15_FailedPassReturnsLastSnapshot ==
    [][(PassEndStep /\ RemoteErrorInPass) =>
          /\ result'.kind = "full"
          /\ Records(result'.albums) = Records(FileAlbums(cacheFile))]_vars

\* C16: a failed write of the fingerprint file does not end the call, which
\* goes on to the listing; a failed write of the snapshot file does not make
\* the call raise, and the call returns the snapshot it computed.
C16_WriteFailureDoesNotRaise ==
    [][/\ ( /\ BeginStep
            /\ ~result'.force
            /\ ScanGate(status', remoteFp, metaFile, cacheFile) = "save"
            /\ metaFile' # JsonMeta(remoteFp) )
          => (result'.kind = "running" /\ pc' = "list")
       /\ ( /\ pc = "enrich"
            /\ pending = {}
            /\ pc' = "idle"
            /\ result'.kind # "crashed"
            /\ FinalLibrary # <<>>
            /\ cacheFile' # JsonFile(FinalLibrary) )
          => (result'.kind = "full" /\ result'.albums = FinalLibrary)]_vars

\* The first call has returned a snapshot after both of its writes failed
\* half-way.
C16_Witness ==
    /\ calls = 1
    /\ result.kind = "full"
    /\ ~result.force
    /\ result.albums # <<>>
    /\ metaFile = CorruptMeta
    /\ cacheFile = CorruptFile

\* C17: the snapshot file is replaced atomically for its readers: a call that
\* reads the file (every call that is not forced) never finds it partially
\* written.
C17_NoReaderSeesPartialSnapshot ==
    [][(BeginStep /\ ~result'.force) => cacheFile.state # "corrupt"]_vars

\* C18: a snapshot file that is absent or cannot be decoded counts as an empty
\* snapshot: no call skips on it, no call raises at the gate or at the cache
\* load, and the pass that follows starts from an empty cache, so that every
\* listed identifier is new and is fetched.
C18_MissingOrCorruptSnapshotIsEmpty ==
    /\ result.kind = "skip" => cacheFile.state = "json"
    /\ result.kind = "raised" => result.at = "list"
    /\ (pc \in {"list", "enrich"} /\ cacheFile.state # "json") =>
          /\ cached_albums = <<>>
          /\ pc = "enrich" =>
                /\ new_ids = current_ids
                /\ ids_to_fetch = current_ids
                /\ Dispatched = current_ids

\* A pass whose gate found a matching fingerprint and an undecodable snapshot
\* file has fetched every listed album.
C18_Witness ==
    /\ pc = "enrich"
    /\ pending = {}
    /\ ~force
    /\ status = "ok"
    /\ FingerprintMatches
    /\ cacheFile.state = "corrupt"
    /\ current_ids # {}
    /\ \A aid \in current_ids : outcomes[aid] = "ok"

\* C19: the callers serialize sync_library: the scheduler thread, in its daily
\* job, and the polling thread, in a command handler, are never inside
\* sync_library at the same time.
C19_SyncPassesNeverOverlap ==
    ~(InSync(scheduler_thread) /\ InSync(bot_thread))

\* The albums get_new_albums is to return: those whose 'created' can be parsed
\* and is after the instant of the call minus hours.
CreatedAfterCutoff ==
    {all_albums[i] : i \in {j \in DOMAIN all_albums :
                               /\ all_albums[j].created.kind = "iso"
                               /\ CreatedDt(all_albums[j].created) > clock - hours}}

\* C20: get_new_albums(hours) returns, without raising, exactly the albums
\* whose creation timestamp can be parsed and is strictly after now minus
\* hours, the later creation timestamp first; an album whose timestamp is
\* missing or cannot be parsed is left out.
C20_NewAlbumsFilteredAndOrdered ==
    returned # "no" =>
        /\ returned = "yes"
        /\ Records(new_albums) = CreatedAfterCutoff
        /\ Len(new_albums) = Cardinality(CreatedAfterCutoff)
        /\ \A i, j \in DOMAIN new_albums :
              i < j => CreatedDt(new_albums[i].created) >= CreatedDt(new_albums[j].created)

\* How detailed a date value is: 3 for year, month and day, 2 for year and
\* month, 1 for a bare year, 0 for none.
Detail(value) ==
    IF value.kind = "dict"
    THEN IF value.year = 0 THEN 0
         ELSE IF value.month = 0 THEN 1
         ELSE IF value.day = 0 THEN 2 ELSE 3
    ELSE IF value.kind = "str" /\ value.length >= IsoDateLength /\ value.year # 0 THEN 3
    ELSE 0

\* The best available release date of a record: the original release date
\* when it is strictly more detailed than the general one, else the general
\* one, else the first of the other date fields.
BestReleaseDate(album) ==
    IF Detail(album.originalReleaseDate) > Detail(album.releaseDate)
    THEN album.originalReleaseDate
    ELSE IF Detail(album.releaseDate) > 0 THEN album.releaseDate
    ELSE FirstDate(album, <<"date", "originalDate", "published">>)

\* The record has no date but in 'releaseDate' and 'originalReleaseDate'.
OnlyReleaseDates(album) ==
    \A k \in {"date", "originalDate", "published"} : ~Truthy(album[k])

\* C21: get_anniversary_albums uses the best available release date of each
\* record, a structured year/month/day over a bare year and the original
\* release date over the general one when the original is strictly more
\* detailed: a record whose originalReleaseDate has the day and the month
\* asked for, and whose releaseDate is missing or a bare year, is returned; a
\* record with only a year-only releaseDate is not.
C21_BestReleaseDateIsUsed ==
    anniversary_returned = "yes" =>
        \A i \in DOMAIN anniversary_albums :
            LET album == anniversary_albums[i]
            IN  /\ (/\ OnlyReleaseDates(album)
                    /\ DictMatches(album.originalReleaseDate, day, month)
                    /\ Detail(album.releaseDate) <= 1)
                       => album \in Records(matches)
                /\ (/\ OnlyReleaseDates(album)
                    /\ ~Truthy(album.originalReleaseDate)
                    /\ album.releaseDate = DictDate(2024, 0, 0))
                       => album \notin Records(matches)

\* A date value that has the day and the month asked for.
HasDayAndMonth(value, d, m) ==
    /\ Detail(value) = 3
    /\ value.month = m
    /\ value.day = d

\* C22: get_anniversary_albums(day, month) returns a record if and only if
\* its usable release date has exactly that day and that month, whatever the
\* year; a record with no usable date is left out, and the call does not
\* raise.
C22_ExactDayAndMonth ==
    anniversary_returned # "no" =>
        /\ anniversary_returned = "yes"
        /\ \A i \in DOMAIN anniversary_albums :
              anniversary_albums[i] \in Records(matches)
                  <=> HasDayAndMonth(BestReleaseDate(anniversary_albums[i]), day, month)

\* The same with the date the loop reads, the first of possible_keys.
C22_ExactForTheDateRead ==
    anniversary_returned # "no" =>
        /\ anniversary_returned = "yes"
        /\ \A i \in DOMAIN anniversary_albums :
              anniversary_albums[i] \in Records(matches)
                  <=> HasDayAndMonth(FirstDate(anniversary_albums[i], possible_keys), day, month)

\* The instant a 'played' value stands for: an integer below 10^11 is in
\* seconds, a greater one in milliseconds, a string is ISO-8601.
PlayedInstant(played) ==
    IF played.kind = "int"
    THEN IF played.value < SecondsBelow THEN played.value ELSE played.value \div 1000
    ELSE played.value - (IF played.suffix = "+10:00" THEN 36 ELSE 0)

\* The play events of an album within the trailing window of the call.
EventsInWindow(aid) ==
    {i \in DOMAIN response.items :
        /\ response.items[i].albumId = aid
        /\ response.items[i].played.kind \in {"int", "str"}
        /\ 10 * PlayedInstant(response.items[i].played) >= 10 * HistoryNow - 864 * days}

\* The albums that have a play event within the window.
AlbumsPlayed == {aid \in Ids : EventsInWindow(aid) # {}}

\* C23: get_top_albums_from_history counts, per album identifier, exactly
\* the play events whose timestamp lies within the trailing window, an
\* integer below 10^11 read as seconds and a greater one as milliseconds, a
\* string as ISO-8601: every album returned has a play within the window and
\* its count is the number of them, and as many albums are returned as the
\* limit allows.
C23_CountsEventsInWindow ==
    (history_returned = "yes" /\ response.kind = "ok") =>
        /\ \A i \in DOMAIN top_albums :
              /\ top_albums[i].id \in AlbumsPlayed
              /\ top_albums[i].playCount = Cardinality(EventsInWindow(top_albums[i].id))
        /\ \A i, j \in DOMAIN top_albums : i # j => top_albums[i].id # top_albums[j].id
        /\ Len(top_albums) = Min(limit, Cardinality(AlbumsPlayed))

\* Two events of one album within the window, one at 1700000000000 and one
\* at '2023-11-14T22:13:20Z', and a count of 2 for it.
C23_Witness ==
    /\ history_returned = "yes"
    /\ response.kind = "ok"
    /\ response.items = <<[played |-> PlayedInt(1700000000), albumId |-> 1],
                          [played |-> PlayedStr(1700000, "Z"), albumId |-> 1]>>
    /\ top_albums = <<[id |-> 1, playCount |-> 2]>>

\* C24: when the play-history endpoint is unavailable, because it returns no
\* data, answers with an API error, or the request fails,
\* get_top_albums_from_history returns the 'frequent' listing of the server
\* and does not raise.
C24_UnavailableHistoryFallsBack ==
    (history_returned # "no" /\ response \in Unavailable
                            /\ fallback \in FrequentResponses) =>
        /\ history_returned = "yes"
        /\ top_albums = fallback.items

\* The sum of f[i] over the indices i of S.
RECURSIVE SumOver(_, _)
SumOver(S, f) ==
    IF S = {} THEN 0
    ELSE LET i == CHOOSE j \in S : TRUE
         IN  f[i] + SumOver(S \ {i}, f)

\* C25: get_server_stats returns albums = the number of records of the
\* snapshot, two records with one identifier both counted, artists = the
\* number of distinct non-empty artist names, compared case-sensitively,
\* songs = the sum of songCount, size_bytes = the sum of total_size_bytes, a
\* missing value counted as 0; it returns None and does not raise when the
\* synchronization raises.
C25_ServerStats ==
    stats_returned # "no" =>
        IF stats_sync = "raise" THEN stats_returned = "none"
        ELSE /\ stats_returned = "stats"
             /\ stats.albums = Cardinality(DOMAIN stats_albums)
             /\ stats.artists =
                    Cardinality({a \in {"Artist 1", "artist 1"} :
                                    \E i \in DOMAIN stats_albums : stats_albums[i].artist = a})
             /\ stats.songs =
                    SumOver({i \in DOMAIN stats_albums : stats_albums[i].has_songCount},
                            [i \in DOMAIN stats_albums |-> stats_albums[i].songCount])
             /\ stats.size_bytes =
                    SumOver({i \in DOMAIN stats_albums : stats_albums[i].has_size},
                            [i \in DOMAIN stats_albums |-> stats_albums[i].total_size_bytes])

\* Two records with one id, artists that differ in case only, one of the
\* records without songCount and total_size_bytes.
C25_Witness ==
    /\ stats_returned = "stats"
    /\ Len(stats_albums) = 2
    /\ stats_albums[1].id = stats_albums[2].id
    /\ stats_albums[1].artist = "Artist 1"
    /\ stats_albums[2].artist = "artist 1"
    /\ stats_albums[1].has_size
    /\ ~stats_albums[2].has_size
    /\ stats.albums = 2
    /\ stats.artists = 2

\* C26: _fetch_album_details sets total_size_bytes to the sum of the sizes
\* of all songs returned for the album; a song without 'size' adds 0, an
\* album without 'song' gets 0, and neither is an error.
C26_TotalSizeIsSumOfSongSizes ==
    (details_returned # "no" /\ album_response.kind = "ok") =>
        /\ details_returned = "album"
        /\ LET song == album_response.album.song
           IN  details.total_size_bytes =
                   SumOver({i \in DOMAIN song : song[i].has_size},
                           [i \in DOMAIN song |-> song[i].size])

\* An album of three songs, the second without 'size'.
C26_Witness ==
    /\ details_returned = "album"
    /\ Len(album_response.album.song) = 3
    /\ album_response.album.song[1].size = 100
    /\ ~album_response.album.song[2].has_size
    /\ album_response.album.song[3].size = 200
    /\ details.total_size_bytes = 300

\* How detailed a date field is: 3 for year, month and day, 2 for year and
\* month, 1 for a year alone, 0 for nothing to show.
DateDetail(val) ==
    IF val.kind = "dict"
    THEN IF val.year = 0 THEN 0
         ELSE IF val.month = 0 THEN 1
         ELSE IF val.day = 0 THEN 2 ELSE 3
    ELSE IF val.kind = "str"
    THEN IF Len(val.text) = 10 THEN 3
         ELSE IF Len(val.text) = 7 THEN 2
         ELSE IF Len(val.text) = 4 THEN 1 ELSE 0
    ELSE 0

\* What a date field is to show.
Shown(val) ==
    IF val = ItemDate(1990, 0, 0) THEN "1990"
    ELSE IF val = ItemDate(1990, 8, 0) THEN "1990-08"
    ELSE IF val = ItemDate(1990, 5, 17) THEN "1990-05-17"
    ELSE IF val = ItemDate(2024, 0, 0) THEN "2024"
    ELSE IF val = ItemDate(2023, 8, 0) THEN "2023-08"
    ELSE IF val = ItemDate(2023, 5, 20) THEN "2023-05-20"
    ELSE val.text

\* C28: the date format_album_list shows is the most detailed of
\* originalReleaseDate and releaseDate, written 'Y-MM-DD', 'Y-MM' or 'Y' with
\* no month or day made up; originalReleaseDate is shown when it has more
\* detail than releaseDate, and the 'year' field when neither date field has
\* anything to show.
C28_MostDetailedDateIsShown ==
    format_returned = "message" =>
        \A i \in DOMAIN format_albums :
            LET original == format_albums[i].originalReleaseDate
                release == format_albums[i].releaseDate
            IN  IF DateDetail(original) = 0 /\ DateDetail(release) = 0
                THEN message[i] = (IF format_albums[i].year = 1999 THEN "1999" ELSE "")
                ELSE IF DateDetail(original) > DateDetail(release)
                THEN message[i] = Shown(original)
                ELSE IF DateDetail(release) > DateDetail(original)
                THEN message[i] = Shown(release)
                ELSE message[i] \in {Shown(original), Shown(release)}

\* The album of test_original_vs_release_date, one with a year and a month
\* only, and their lines.
C28_Witness ==
    /\ format_returned = "message"
    /\ Len(format_albums) = 2
    /\ format_albums[1].originalReleaseDate = ItemDate(1990, 5, 17)
    /\ format_albums[1].releaseDate = ItemDate(2024, 0, 0)
    /\ format_albums[2].originalReleaseDate = NoDate
    /\ format_albums[2].releaseDate = ItemDate(2023, 8, 0)
    /\ message = <<"1990-05-17", "2023-08">>

\* C29: in a non-forced full pass with the listing identifiers R and the
\* cached records C, newIds = R \ keys(C), deletedIds = keys(C) \ R,
\* expiredIds = the identifiers of keys(C) outside deletedIds whose record is
\* at least 7 days old, or lacks total_size_bytes, or has a missing or
\* unparsable fetched_at, and the identifiers fetched are newIds with
\* expiredIds.
C29_DiffAndExpiry ==
    (pc = "enrich" /\ ~force) =>
        LET R == {current_api_albums[i].id : i \in DOMAIN current_api_albums}
            K == {cached_albums[i].id : i \in DOMAIN cached_albums}
            newIds == R \ K
            deletedIds == K \ R
            expiredIds ==
                {aid \in K \ deletedIds :
                    \E i \in DOMAIN cached_albums :
                        /\ cached_albums[i].id = aid
                        /\ \/ cached_albums[i].fetched_at_str # "iso"
                           \/ now - cached_albums[i].fetched_at >= 7
                           \/ ~cached_albums[i].has_size}
        IN  /\ new_ids = newIds
            /\ deleted_ids = deletedIds
            /\ expired_ids = expiredIds
            /\ Dispatched = newIds \cup expiredIds

\* A non-forced pass over a listing of a cached album that is 7 days old and
\* an album that is not cached, all fetches dispatched and done.
C29_Witness ==
    /\ pc = "enrich"
    /\ ~force
    /\ pending = {}
    /\ new_ids # {}
    /\ expired_ids # {}
    /\ \E i \in DOMAIN cached_albums :
          /\ cached_albums[i].id \in expired_ids
          /\ cached_albums[i].fetched_at_str = "iso"
          /\ cached_albums[i].has_size
          /\ now - cached_albums[i].fetched_at = 7

\* C30 as stated: in every call that proceeds to a full pass, whatever force
\* and the scan status are, the persisted fingerprint is the {count,
\* lastScan} of the server before the first detail fetch is dispatched.
C30_FingerprintSetInEveryFullPass ==
    pc = "enrich" => FingerprintMatches

\* The gate of a call reaches the write of scan_status.json: the call is not
\* forced, the scan status is there and not scanning, and neither the
\* fingerprint file nor, when the fingerprint is unchanged, the snapshot file
\* fails to load.
WriteReached(f, st) ==
    /\ ~f
    /\ st = "ok"
    /\ metaFile.state # "corrupt"
    /\ ~(FingerprintMatches /\ cacheFile.state = "corrupt")

\* C30: in a call that proceeds to a full pass the fingerprint is written, at
\* the gate and so before the first detail fetch is dispatched, when the call
\* is not forced, its scan status is there and not scanning and the gate
\* loads the persisted files; once written it is the {count, lastScan} of
\* the server. In every other full pass, and during the listing and the
\* fetches, the persisted fingerprint stays as it was.
C30_FingerprintSetWhenGateSaves ==
    /\ [][(BeginStep /\ pc' = "list") =>
             (IF WriteReached(force', status')
              THEN \/ result'.wroteMeta /\ metaFile' = JsonMeta(remoteFp)
                   \/ ~result'.wroteMeta /\ metaFile' \in {metaFile, CorruptMeta}
              ELSE ~result'.wroteMeta /\ metaFile' = metaFile)]_vars
    /\ [][(pc \in {"list", "enrich"}) => (metaFile' = metaFile)]_vars

\* A non-forced pass whose gate has written the fingerprint, its first
\* fetches dispatched and none done.
C30_Witness ==
    /\ pc = "enrich"
    /\ ~force
    /\ status = "ok"
    /\ result.wroteMeta
    /\ FingerprintMatches
    /\ pending # {}
    /\ outcomes = NoOutcomes

\* C27: run with --dry-run, normalize_dirs writes nothing to the file
\* system: no album directory is renamed or made, no file is moved,
\* overwritten or deleted.
C27_DryRunWritesNothing ==
    [][(argv_dry_run) => (fs_dirs' = fs_dirs /\ fs_files' = fs_files)]_vars

\* C31: at every moment of a pass at most 10 of its detail fetches are in
\* flight, and each identifier of ids_to_fetch is dispatched exactly once:
\* never more than once, and once when the submission is over.
C31_AtMostTenInFlightEachIdOnce ==
    /\ Cardinality(in_flight) <= 10
    /\ in_flight \subseteq pool_ids
    /\ \A aid \in 1..MaxFetch :
          /\ submits[aid] <= 1
          /\ aid \notin pool_ids => submits[aid] = 0
          /\ (pool_pc \in {"as_completed", "reconcile"} /\ aid \in pool_ids)
                => submits[aid] = 1

\* Ten fetches run while an eleventh waits in the queue.
C31_Witness ==
    /\ Cardinality(in_flight) = 10
    /\ work_queue # <<>>
    /\ pool_pc = "as_completed"

\* C32: the reconcile step starts only after every detail fetch the pass
\* dispatched has returned or raised: none is in flight or queued then.
C32_ReconcileAfterAllFetches ==
    pool_pc = "reconcile" =>
        /\ in_flight = {}
        /\ work_queue = <<>>
        /\ done_futures = pool_ids

\* The reconcile step is reached after fetches that ran side by side.
C32_Witness ==
    /\ pool_pc = "reconcile"
    /\ Cardinality(pool_ids) > 10
    /\ threads = 10

\* The answer to the i-th request has no albums: an empty page, or no data.
EmptyAnswer(i) ==
    LET answer == AnswerAt(remote_pages, remote_tail, (i - 1) * 500)
    IN  answer.kind = "nodata" \/ (answer.kind = "page" /\ answer.album = <<>>)

\* The albums of the first n answers, page after page.
RECURSIVE Concatenation(_)
Concatenation(n) ==
    IF n = 0 THEN <<>>
    ELSE Concatenation(n - 1) \o AnswerAt(remote_pages, remote_tail, (n - 1) * 500).album

\* C33: the listing step requests pages of 500 at the offsets 0, 500, 1000,
\* ..., stops at the first empty page, yields the pages before it in order
\* and without deduplication, and terminates when the server answers some
\* offset with an empty page.
C33_PagesUntilFirstEmptyPage ==
    /\ [](\A i \in 1..Len(requests_made) : requests_made[i] = (i - 1) * 500)
    /\ [](listing_pc = "done" =>
            /\ EmptyAnswer(Len(requests_made))
            /\ \A i \in 1..(Len(requests_made) - 1) : ~EmptyAnswer(i)
            /\ api_albums = Concatenation(Len(requests_made) - 1))
    /\ ((\E i \in 1..MaxRequests : EmptyAnswer(i))
            ~> (listing_pc \in {"done", "raised"}))

\* Two pages were listed, the second repeating an album of the first, and the
\* third request met the empty page.
C33_Witness ==
    /\ listing_pc = "done"
    /\ Len(requests_made) = 3
    /\ Len(api_albums) = 2 * MaxPageLen
    /\ \E i, j \in 1..Len(api_albums) : i # j /\ api_albums[i] = api_albums[j]

\* C34: every remote call of the client is sent again on HTTP 429, 500,
\* 502, 503 and 504, at most 3 times, and when the retries are used up the
\* failure is propagated to the caller of the call.
C34_EveryCallRetriesThenPropagates ==
    [][(http_outcome = "no"
        /\ http_answers[attempts + 1].code \in {429, 500, 502, 503, 504}) =>
          (IF attempts < 3
           THEN attempts' = attempts + 1 /\ http_outcome' = "no"
           ELSE http_outcome' = "raised")]_vars

C36_BadListingPayloadDropsNothingListed ==
    /\ [][(pc = "list" /\ pc' = "idle") => result'.kind \in {"raised", "crashed"}]_vars
    /\ [][(FinishStep /\ current_api_albums = <<>> /\ remoteIds # {}) =>
              \A aid \in remoteIds \cap cached_ids :
                 /\ aid \in IdsOf(result'.albums)
                 /\ aid \in IdsOf(FileAlbums(cacheFile'))]_vars

\* C39: in a run without a crash, where the fingerprint of the server changes
\* with every change of its listing, a call that takes the skip path returns
\* a snapshot with exactly the identifiers the server lists, whatever the
\* pass before it met. Stated for the second call of a run whose first call
\* did not die.
C39_SkipReturnsTheRemoteListing ==
    [][(/\ BeginStep
        /\ calls = 1
        /\ result.kind # "crashed"
        /\ result'.kind = "skip")
       => IdsOf(result'.albums) = remoteIds]_vars

\* C40: once a full pass has returned a snapshot without an identifier that
\* is no longer listed, the snapshot file does not hold that identifier after
\* the pass, and no later call, skipped or full, returns a record for it
\* while the server does not list it.
C40_RemovedIdentifierStaysRemoved ==
    /\ [][FinishStep =>
              \A aid \in cached_ids \ remoteIds :
                 aid \notin IdsOf(result'.albums)
                    => aid \notin IdsOf(FileAlbums(cacheFile'))]_vars
    /\ [][(/\ BeginStep
            /\ result.kind = "full"
            /\ result.fp = remoteFp
            /\ result'.kind = "skip")
           => \A aid \in Ids \ remoteIds :
                 aid \notin IdsOf(result.albums) => aid \notin IdsOf(result'.albums)]_vars
    /\ [][FinishStep => \A aid \in Ids \ remoteIds : aid \notin IdsOf(result'.albums)]_vars

\* C37: every chunk _split_message(text, max_length) returns has at most
\* max_length characters.
C37_ChunksFitMaxLength ==
    split_returned => \A i \in 1..Len(chunks) : Len(chunks[i]) <= max_length

\* C38: no handler of the bot, for a command or for a keyboard callback,
\* acts on a request from a chat that is not among the authorized chat ids;
\* with no authorized chat id configured every request is rejected.
C38_OnlyAuthorizedChatsAreServed ==
    last_update.outcome = "served" =>
        /\ last_update.chat \in authorized_chat_ids
        /\ authorized_chat_ids # {}

====
